---- MODULE Spec2Model ----
(***************************************************************************)
(* A model of operations_research::sat::PresolveContext                    *)
(* (ortools/sat/presolve_context.cc): the domain store, the constant       *)
(* table, the two affine-relation union-finds, the Boolean equality store, *)
(* the value encodings, the constraint-variable graph and the objective.   *)
(* Every operation of the context is an operator from a context    *)
(* record (the object's fields) to the context after the call, so that an  *)
(* operation that calls another one is the composition the code performs.  *)
(* The actions apply one public operation each to the state variables.     *)
(*                                                                         *)
(* Variables are numbered from 0 as in the source; domains is a sequence,  *)
(* so variable v is domains[v + 1].  A Domain is modelled by the finite    *)
(* set of its values.  The source's `int` is 32 bits wide; a value of that *)
(* width cannot be written in a TLC integer, so the model keeps the        *)
(* conversion int64 -> int (ToInt) but narrows int to IntBits bits.        *)
(***************************************************************************)
EXTENDS Integers, Sequences, FiniteSets, TLC

\* ------------------------------------------------------------- bounds
\* Most variables a run creates.
MaxVars == 2
\* Most constraints a run appends to the working model.
MaxCts == 1
\* Width of `int` in the model (32 in the source).
IntBits == 4
\* Width of `int64` in the model (64 in the source).
LongBits == 6

\* The smallest positive int64 value whose conversion to int loses a bit,
\* plus one: it converts to 1.
BigOne == 2^IntBits + 1

\* ------------------------------------------------- integer conversions
Abs(a) == IF a < 0 THEN -a ELSE a

\* static_cast<int>(v) of an int64 v: keep the low IntBits bits (two's
\* complement).
ToInt(v) == ((v + 2^(IntBits - 1)) % (2^IntBits)) - 2^(IntBits - 1)

\* C++ a % b == 0 (b # 0).
Divides(b, a) == a % Abs(b) = 0

\* C++ a / b (truncation toward zero, b # 0).
CDiv(a, b) ==
  IF (a < 0) = (b < 0) THEN Abs(a) \div Abs(b) ELSE -(Abs(a) \div Abs(b))

\* ---------------------------------------------------- reference algebra
PositiveRef(ref) == IF ref >= 0 THEN ref ELSE -ref - 1
NegatedRef(ref) == -ref - 1
RefIsPositive(ref) == ref >= 0

\* ------------------------------------------------------------- Domain
DomMin(D) == CHOOSE m \in D : \A x \in D : m <= x
DomMax(D) == CHOOSE m \in D : \A x \in D : x <= m
Negation(D) == {-x : x \in D}
IsIncludedIn(D, E) == D \subseteq E
IntersectionWith(D, E) == D \cap E

kint64min == -(2^(LongBits - 1))
kint64max == 2^(LongBits - 1) - 1
AllValues == kint64min .. kint64max
\* CapAdd and CapProd: the result saturates at the ends of int64.
Cap(v) == IF v > kint64max THEN kint64max
          ELSE IF v < kint64min THEN kint64min ELSE v
Complement(D) == AllValues \ D
AdditionWith(D, E) == {Cap(x + y) : x \in D, y \in E}
\* The domains of the model are far below the size at which the source
\* multiplies the bounds only, and below the number of intervals at which
\* RelaxIfTooComplex replaces a domain by its hull.
MultiplicationBy(D, coeff) == {Cap(x * coeff) : x \in D}
RelaxIfTooComplex(D) == D
InverseMultiplicationBy(D, coeff) == {x \in AllValues : x * coeff \in D}
\* The smallest union of intervals that has the same intersection with
\* implied as D: a gap of D that holds no value of implied is filled.
SimplifyUsingImpliedDomain(D, implied) ==
  LET X == D \cap implied
  IN {x \in AllValues :
        \E a \in X, b \in X :
          /\ a <= x /\ x <= b
          /\ \A y \in implied : (a <= y /\ y <= b) => y \in X}

\* ------------------------------------------------------ AffineRelation
\* representative_, coeff_, offset_ and size_ of an AffineRelation.  The
\* vectors of the source grow on demand and an index beyond them is its own
\* representative; here every index of the model has its entry from the
\* start.  The source compresses paths when it reads; the model keeps the
\* parent links and composes along the path, which gives the same relation.
\* The last index is that of a variable an operation creates beyond MaxVars
\* before the step is refused.
VarIds == 0 .. MaxVars

EmptyRepo ==
  [representative_ |-> [v \in VarIds |-> v],
   coeff_ |-> [v \in VarIds |-> 1],
   offset_ |-> [v \in VarIds |-> 0],
   size_ |-> [v \in VarIds |-> 1]]

RECURSIVE RepoGet(_, _)
RepoGet(repo, x) ==
  IF repo.representative_[x] = x
  THEN [representative |-> x, coeff |-> 1, offset |-> 0]
  ELSE LET p == RepoGet(repo, repo.representative_[x])
       IN [representative |-> p.representative,
           coeff |-> repo.coeff_[x] * p.coeff,
           offset |-> repo.offset_[x] + repo.coeff_[x] * p.offset]

\* The body of TryAdd once Get(x) = gx and Get(y) = gy have been looked up.
TryAddBetween(repo, x, y, gx, gy, coeff, offset, allow_rep_x, allow_rep_y) ==
  LET new_coeff == coeff * gy.coeff
      new_offset == coeff * gy.offset + offset - gx.offset
  IN IF gx.representative = gy.representative
     THEN [repo |-> repo, added |-> FALSE]
     ELSE IF /\ allow_rep_y /\ Divides(gx.coeff, new_coeff)
             /\ Divides(gx.coeff, new_offset)
             /\ \/ ~(allow_rep_x /\ Divides(new_coeff, gx.coeff)
                                 /\ Divides(new_coeff, new_offset))
                \/ repo.size_[x] <= repo.size_[y]
     THEN [repo |->
             [representative_ |-> [repo.representative_ EXCEPT
                                     ![gx.representative] = gy.representative],
              coeff_ |-> [repo.coeff_ EXCEPT
                            ![gx.representative] = CDiv(new_coeff, gx.coeff)],
              offset_ |-> [repo.offset_ EXCEPT
                             ![gx.representative] = CDiv(new_offset, gx.coeff)],
              size_ |-> [repo.size_ EXCEPT
                           ![gy.representative] =
                              repo.size_[gy.representative]
                              + repo.size_[gx.representative]]],
           added |-> TRUE]
     ELSE IF allow_rep_x /\ Divides(new_coeff, gx.coeff)
                         /\ Divides(new_coeff, new_offset)
     THEN [repo |->
             [representative_ |-> [repo.representative_ EXCEPT
                                     ![gy.representative] = gx.representative],
              coeff_ |-> [repo.coeff_ EXCEPT
                            ![gy.representative] = CDiv(gx.coeff, new_coeff)],
              offset_ |-> [repo.offset_ EXCEPT
                             ![gy.representative] = CDiv(-new_offset, new_coeff)],
              size_ |-> [repo.size_ EXCEPT
                           ![gx.representative] =
                              repo.size_[gx.representative]
                              + repo.size_[gy.representative]]],
           added |-> TRUE]
     ELSE [repo |-> repo, added |-> FALSE]

\* AffineRelation::TryAdd(x, y, coeff, offset, allow_rep_x, allow_rep_y):
\* the repository after the call and whether a relation was added.
TryAdd(repo, x, y, coeff, offset, allow_rep_x, allow_rep_y) ==
  TryAddBetween(repo, x, y, RepoGet(repo, x), RepoGet(repo, y), coeff, offset,
                allow_rep_x, allow_rep_y)

\* --------------------------------------------------------------- state
VARIABLES
  domains,               \* std::vector<Domain> domains
  is_unsat,              \* bool is_unsat
  modified_domains,      \* SparseBitset modified_domains: the bits set
  table_size,            \* size of modified_domains and the per-variable tables
  constant_to_ref,       \* map int64 -> variable index
  affine_relations_,     \* AffineRelation affine_relations_
  var_equiv_relations_,  \* AffineRelation var_equiv_relations_
  constraints,           \* working_model->constraints()
  affine_constraints,    \* set of the constraints that define a relation
  encoding,              \* map (var, value) -> literal
  eq_half_encoding,      \* map (var, value) -> literals that imply var == value
  neq_half_encoding,     \* map (var, value) -> literals that imply var != value
  constraint_to_vars_,   \* per constraint, the variables it uses
  var_to_constraints_,   \* per variable, the constraints that use it (-1: objective)
  constraint_to_linear1_var_,  \* per constraint, the variable of a size-1 linear, or -1
  var_to_num_linear1_,   \* per variable, the number of size-1 linears on it
  constraint_to_intervals_,  \* per constraint, the intervals it uses
  interval_usage_,       \* per constraint index, the number of constraints that use it as an interval
  objective,             \* the objective_* fields
  keep_all_feasible_solutions,  \* bool keep_all_feasible_solutions
  calls,                 \* the number of operations called so far, where counted
  last                   \* the last call: operation, arguments, result

vars == <<domains, is_unsat, modified_domains, table_size, constant_to_ref,
          affine_relations_, var_equiv_relations_, constraints,
          affine_constraints, encoding, eq_half_encoding, neq_half_encoding,
          constraint_to_vars_, var_to_constraints_,
          constraint_to_linear1_var_, var_to_num_linear1_,
          constraint_to_intervals_, interval_usage_, objective,
          keep_all_feasible_solutions, calls, last>>

\* The fields of the context as one record.
Ctx ==
  [domains |-> domains, is_unsat |-> is_unsat,
   modified_domains |-> modified_domains, table_size |-> table_size,
   constant_to_ref |-> constant_to_ref,
   affine_relations_ |-> affine_relations_,
   var_equiv_relations_ |-> var_equiv_relations_,
   constraints |-> constraints, affine_constraints |-> affine_constraints,
   encoding |-> encoding, eq_half_encoding |-> eq_half_encoding,
   neq_half_encoding |-> neq_half_encoding,
   constraint_to_vars_ |-> constraint_to_vars_,
   var_to_constraints_ |-> var_to_constraints_,
   constraint_to_linear1_var_ |-> constraint_to_linear1_var_,
   var_to_num_linear1_ |-> var_to_num_linear1_,
   constraint_to_intervals_ |-> constraint_to_intervals_,
   interval_usage_ |-> interval_usage_,
   objective |-> objective,
   keep_all_feasible_solutions |-> keep_all_feasible_solutions]

NumVars(c) == Len(c.domains)
Dom(c, var) == c.domains[var + 1]


\* ------------------------------------------------------------ queries
DomainIsEmpty(c, ref) == Dom(c, PositiveRef(ref)) = {}

\* Domain::IsFixed() is Min() == Max(); the callers only ask it of a
\* non-empty domain.
IsFixed(c, ref) ==
  DomMin(Dom(c, PositiveRef(ref))) = DomMax(Dom(c, PositiveRef(ref)))

\* Min() and Max() of an empty Domain read the first and last interval of an
\* empty vector: the answer is whatever the build yields, ub.
CanBeUsedAsLiteral(c, ref, ub) ==
  LET D == Dom(c, PositiveRef(ref))
  IN IF D = {} THEN ub ELSE DomMin(D) >= 0 /\ DomMax(D) <= 1

LiteralIsTrue(c, lit) ==
  IF RefIsPositive(lit) THEN DomMin(Dom(c, lit)) = 1
  ELSE DomMax(Dom(c, PositiveRef(lit))) = 0

LiteralIsFalse(c, lit) ==
  IF RefIsPositive(lit) THEN DomMax(Dom(c, lit)) = 0
  ELSE DomMin(Dom(c, PositiveRef(lit))) = 1

MinOf(c, ref) ==
  IF RefIsPositive(ref) THEN DomMin(Dom(c, PositiveRef(ref)))
  ELSE -DomMax(Dom(c, PositiveRef(ref)))

MaxOf(c, ref) ==
  IF RefIsPositive(ref) THEN DomMax(Dom(c, PositiveRef(ref)))
  ELSE -DomMin(Dom(c, PositiveRef(ref)))

DomainOf(c, ref) ==
  IF RefIsPositive(ref) THEN Dom(c, ref)
  ELSE Negation(Dom(c, PositiveRef(ref)))

DomainContains(c, ref, value) ==
  IF ~RefIsPositive(ref) THEN -value \in Dom(c, PositiveRef(ref))
  ELSE value \in Dom(c, ref)

\* ------------------------------------------------- IntersectDomainWith
\* (mutant) The domain is not negated for a negated reference.
IntersectArgumentUnsigned(ref, D) == D

\* The domain IntersectDomainWith intersects domains[var] with.
IntersectArgument(ref, D) == IF RefIsPositive(ref) THEN D ELSE Negation(D)

\* (mutant) The early return is taken only when the two domains are equal.
IntersectIsNoopWhenEqual(c, ref, D) ==
  Dom(c, PositiveRef(ref)) = IntersectArgument(ref, D)

\* The early return: the domain is already included.
IntersectIsNoop(c, ref, D) ==
  IsIncludedIn(Dom(c, PositiveRef(ref)), IntersectArgument(ref, D))

\* (mutant) The argument is stored in place of the intersection.
IntersectedDomainReplaced(c, ref, D) == IntersectArgument(ref, D)

\* The value stored in domains[var] when the call does not return early.
IntersectedDomain(c, ref, D) ==
  IntersectionWith(Dom(c, PositiveRef(ref)), IntersectArgument(ref, D))

\* (mutant) An empty domain is stored without is_unsat being set.
UnsatAfterIntersectUnchanged(c, new_domain) == c.is_unsat

\* (mutant) is_unsat is assigned whether the new domain is empty.
UnsatAfterIntersectAssigned(c, new_domain) == new_domain = {}

\* is_unsat after the domain was replaced by new_domain.
UnsatAfterIntersect(c, new_domain) ==
  IF new_domain = {} THEN TRUE ELSE c.is_unsat

ModifiedAfterIntersectUnmarked(c, var) == c.modified_domains

\* modified_domains after the domain of var was replaced.
ModifiedAfterIntersect(c, var) == c.modified_domains \cup {var}

\* The DCHECK on entry of IntersectDomainWith.
IntersectDomainWithChecks(c, ref) == ~DomainIsEmpty(c, ref)

\* modified_domains.Set(var) stays inside the bitset, when the call reaches it.
IntersectMarksInRange(c, ref, D) ==
  IntersectIsNoop(c, ref, D) \/ PositiveRef(ref) < c.table_size

\* domain_modified is the caller's flag: "nullptr" when the caller passes
\* none, else "false" or "true".
IntersectDomainWith(c, ref, D, domain_modified) ==
  LET var == PositiveRef(ref)
      nd == IntersectedDomain(c, ref, D)
  IN IF IntersectIsNoop(c, ref, D)
     THEN [ctx |-> c, ret |-> TRUE, domain_modified |-> domain_modified]
     ELSE [ctx |-> [c EXCEPT !.domains[var + 1] = nd,
                             !.modified_domains = ModifiedAfterIntersect(c, var),
                             !.is_unsat = UnsatAfterIntersect(c, nd)],
           ret |-> nd # {},
           domain_modified |->
             IF domain_modified # "nullptr" THEN "true" ELSE "nullptr"]

SetLiteralToFalse(c, lit) ==
  LET var == PositiveRef(lit)
      value == IF RefIsPositive(lit) THEN 0 ELSE 1
  IN IntersectDomainWith(c, var, {value}, "nullptr")

SetLiteralToTrue(c, lit) == SetLiteralToFalse(c, NegatedRef(lit))

\* AddRelation for a coefficient of 1 or -1 that lets TryAdd pick either
\* representative.
AddRelationAllowingBoth(x, y, cf, o, repo, allow_rep_x, allow_rep_y) ==
  TryAdd(repo, x, y, cf, o, TRUE, TRUE)

\* ------------------------------------------------------- relations
\* AddRelation for a coefficient of 1 or -1, given whether each representative
\* can be used as a literal.
AddRelationAllowing(x, y, cf, o, repo, allow_rep_x, allow_rep_y) ==
  IF allow_rep_x \/ allow_rep_y
  THEN TryAdd(repo, x, y, cf, o, allow_rep_x, allow_rep_y)
  ELSE TryAdd(repo, x, y, cf, o, TRUE, TRUE)

AddRelation(c, x, y, cf, o, repo, ub) ==
  IF Abs(cf) # 1 THEN TryAdd(repo, x, y, cf, o, TRUE, TRUE)
  ELSE AddRelationAllowing(
         x, y, cf, o, repo,
         CanBeUsedAsLiteral(c, RepoGet(repo, x).representative, ub),
         CanBeUsedAsLiteral(c, RepoGet(repo, y).representative, ub))

\* std::vector::resize(n, v) of a vector that is not longer than n.
Resize(seq, n, v) == [i \in 1 .. n |-> IF i <= Len(seq) THEN seq[i] ELSE v]

Put(f, k, v) == [x \in (DOMAIN f) \cup {k} |-> IF x = k THEN v ELSE f[x]]

\* `const int min = MinOf(var)`: the int64 minimum converted to int.
FixedValueKey(c, var) == ToInt(MinOf(c, var))

\* ExploitFixedDomain once `min` has been read.
ExploitFixedValue(c, var, min, ub) ==
  IF min \in DOMAIN c.constant_to_ref
  THEN IF c.constant_to_ref[min] # var
       THEN [c EXCEPT
               !.affine_relations_ =
                  AddRelation(c, var, c.constant_to_ref[min], 1, 0,
                              c.affine_relations_, ub).repo,
               !.var_equiv_relations_ =
                  AddRelation(c, var, c.constant_to_ref[min], 1, 0,
                              c.var_equiv_relations_, ub).repo]
       ELSE c
  ELSE [c EXCEPT !.constant_to_ref = Put(c.constant_to_ref, min, var)]

ExploitFixedDomain(c, var, ub) ==
  ExploitFixedValue(c, var, FixedValueKey(c, var), ub)

\* InitializeNewDomains for the one variable, of domain D, that the caller has
\* just added to working_model (every caller adds one and calls it at once,
\* so working_model->variables_size() is NumVars + 1 on entry).
\* The resizes that end InitializeNewDomains.
ResizeTables(c) ==
  [c EXCEPT !.table_size = Len(c.domains),
            !.var_to_constraints_ =
              Resize(c.var_to_constraints_, Len(c.domains), {}),
            !.var_to_num_linear1_ =
              Resize(c.var_to_num_linear1_, Len(c.domains), 0)]

\* The loop body of InitializeNewDomains on variable i, its domain stored.
InitializeDomain(c, i, ub) ==
  IF DomainIsEmpty(c, i) THEN [c EXCEPT !.is_unsat = TRUE]
  ELSE IF IsFixed(c, i) THEN ResizeTables(ExploitFixedDomain(c, i, ub))
  ELSE ResizeTables(c)

InitializeNewDomains(c, D, ub) ==
  InitializeDomain([c EXCEPT !.domains = Append(c.domains, D)], NumVars(c), ub)

NewIntVar(c, D, ub) ==
  [ctx |-> InitializeNewDomains(c, D, ub), ret |-> NumVars(c)]

NewBoolVar(c, ub) == NewIntVar(c, {0, 1}, ub)

\* `return constant_to_ref_[cst].Get(this)`.
ConstantRef(c, cst) == [ctx |-> c, ret |-> c.constant_to_ref[cst]]

GetOrCreateConstantVar(c, cst, ub) ==
  IF cst \notin DOMAIN c.constant_to_ref
  THEN ConstantRef(
         InitializeNewDomains(
           [c EXCEPT !.constant_to_ref =
                        Put(c.constant_to_ref, cst, NumVars(c))],
           {cst}, ub),
         cst)
  ELSE ConstantRef(c, cst)

GetAffineRelation(c, ref) ==
  LET r == RepoGet(c.affine_relations_, PositiveRef(ref))
      o == RepoGet(c.var_equiv_relations_, r.representative)
      cf == IF o.coeff = -1 THEN -r.coeff ELSE r.coeff
  IN IF ~RefIsPositive(ref)
     THEN [representative |-> o.representative, coeff |-> -cf,
           offset |-> -r.offset]
     ELSE [representative |-> o.representative, coeff |-> cf,
           offset |-> r.offset]

\* (mutant) The offset is not looked at.
IsEquivalenceAnyOffset(cf, o) == cf = 1 \/ cf = -1

\* The test that sends a relation to var_equiv_relations_ as well.
IsEquivalence(cf, o) == (cf = 1 \/ cf = -1) /\ o = 0

\* The constraint argument of a caller whose constraint is not one of the
\* constraints the model keeps in `constraints`.
ExternalCt == -1

\* (mutant) Both variables are marked when a relation was added.
RecordAddedRelationMarkingBoth(c1, ct, x, y, added) ==
  IF added
  THEN [c1 EXCEPT !.modified_domains = c1.modified_domains \cup {x, y},
                  !.affine_constraints = c1.affine_constraints \cup {ct}]
  ELSE c1

\* The end of StoreAffineRelation: c1 is the context with both repositories
\* updated, `added` whether either AddRelation added a relation.
RecordAddedRelation(c1, ct, x, y, added) ==
  IF added
  THEN [c1 EXCEPT
          !.modified_domains =
             c1.modified_domains
             \cup (IF GetAffineRelation(c1, x).representative # x
                   THEN {x} ELSE {})
             \cup (IF GetAffineRelation(c1, y).representative # y
                   THEN {y} ELSE {}),
          !.affine_constraints = c1.affine_constraints \cup {ct}]
  ELSE c1

\* StoreAffineRelation given the results a1, a2 of the two AddRelation calls.
StoreAddedRelations(c, ct, x, y, a1, a2) ==
  RecordAddedRelation([c EXCEPT !.affine_relations_ = a1.repo,
                                !.var_equiv_relations_ = a2.repo],
                      ct, x, y, a1.added \/ a2.added)

\* StoreAffineRelation on the variables x = cf * y + o, both unfixed.
StoreVariableRelation(c, ct, x, y, cf, o, ub) ==
  StoreAddedRelations(
    c, ct, x, y,
    AddRelation(c, x, y, ToInt(cf), ToInt(o), c.affine_relations_, ub),
    IF IsEquivalence(cf, o)
    THEN AddRelation(c, x, y, ToInt(cf), ToInt(o), c.var_equiv_relations_, ub)
    ELSE [repo |-> c.var_equiv_relations_, added |-> FALSE])

\* StoreAffineRelation(ct, ref_x, ref_y, coeff, offset); ct is the index of the
\* constraint in `constraints`, or ExternalCt.
StoreAffineRelation(c, ct, ref_x, ref_y, coeff, offset, ub) ==
  IF c.is_unsat THEN c
  ELSE IF IsFixed(c, ref_x) \/ IsFixed(c, ref_y) THEN c
  ELSE StoreVariableRelation(
         c, ct, PositiveRef(ref_x), PositiveRef(ref_y),
         IF RefIsPositive(ref_x) = RefIsPositive(ref_y) THEN coeff ELSE -coeff,
         IF RefIsPositive(ref_x) THEN offset ELSE -offset, ub)

\* The constraint a = b whatever the polarities.
BoolEqConstraintIgnoringSign(ref_a, ref_b) ==
  [kind |-> "linear", enforcement_literal |-> << >>,
   vars |-> <<PositiveRef(ref_a), PositiveRef(ref_b)>>,
   coeffs |-> <<1, -1>>, domain |-> {0}]

\* The two-variable linear constraint StoreBooleanEqualityRelation appends.
BoolEqConstraint(ref_a, ref_b) ==
  IF RefIsPositive(ref_a) = RefIsPositive(ref_b)
  THEN [kind |-> "linear", enforcement_literal |-> << >>,
        vars |-> <<PositiveRef(ref_a), PositiveRef(ref_b)>>,
        coeffs |-> <<1, -1>>, domain |-> {0}]
  ELSE [kind |-> "linear", enforcement_literal |-> << >>,
        vars |-> <<PositiveRef(ref_a), PositiveRef(ref_b)>>,
        coeffs |-> <<1, 1>>, domain |-> {1}]

BoolEqTermIgnoringSign(ref_a, ref_b) == <<1, 0>>

\* The coefficient and offset StoreBooleanEqualityRelation stores: a = b or
\* a = 1 - b on the variables.
BoolEqTerm(ref_a, ref_b) ==
  IF RefIsPositive(ref_a) = RefIsPositive(ref_b) THEN <<1, 0>> ELSE <<-1, 1>>

\* The early return on two variables that are already related.
AlreadyRelated(c, var_a, var_b) ==
  \/ GetAffineRelation(c, var_a).representative = var_b
  \/ GetAffineRelation(c, var_b).representative = var_a

StoreBooleanEqualityRelation(c, ref_a, ref_b, ub) ==
  IF ref_a = ref_b THEN c
  ELSE IF ref_a = NegatedRef(ref_b) THEN [c EXCEPT !.is_unsat = TRUE]
  ELSE
    LET var_a == PositiveRef(ref_a)
        var_b == PositiveRef(ref_b)
        ct == Len(c.constraints)
        c1 == [c EXCEPT !.constraints =
                          Append(c.constraints, BoolEqConstraint(ref_a, ref_b))]
    IN IF AlreadyRelated(c, var_a, var_b) THEN c
       ELSE StoreAffineRelation(c1, ct, var_a, var_b,
                                BoolEqTerm(ref_a, ref_b)[1],
                                BoolEqTerm(ref_a, ref_b)[2], ub)

\* positive_possible and negative_possible of GetLiteralRepresentative.
PositivePossible(r) == r.offset = 0 \/ r.coeff + r.offset = 1
NegativePossible(r) == r.offset = 1 \/ r.coeff + r.offset = 0

GetLiteralRepresentative(c, ref, ub) ==
  LET r == GetAffineRelation(c, PositiveRef(ref))
  IN IF ~CanBeUsedAsLiteral(c, r.representative, ub) THEN ref
     ELSE IF RefIsPositive(ref)
     THEN (IF PositivePossible(r) THEN r.representative
           ELSE NegatedRef(r.representative))
     ELSE (IF PositivePossible(r) THEN NegatedRef(r.representative)
           ELSE r.representative)

\* The two CHECKs of GetVariableRepresentative.
VariableRepresentativeChecks(c, ref) ==
  LET r == RepoGet(c.var_equiv_relations_, PositiveRef(ref))
  IN Abs(r.coeff) = 1 /\ r.offset = 0

GetVariableRepresentative(c, ref) ==
  LET r == RepoGet(c.var_equiv_relations_, PositiveRef(ref))
  IN IF RefIsPositive(ref) = (r.coeff = 1) THEN r.representative
     ELSE NegatedRef(r.representative)


\* ------------------------------------------------- constraints, graph
\* a => b.
AddImplication(c, a, b) ==
  [c EXCEPT !.constraints =
     Append(c.constraints,
            [kind |-> "bool_and", enforcement_literal |-> <<a>>,
             vars |-> <<b>>, coeffs |-> << >>, domain |-> {}])]

\* b => x in domain.
AddImplyInDomain(c, b, x, domain) ==
  [c EXCEPT !.constraints =
     Append(c.constraints,
            [kind |-> "linear", enforcement_literal |-> <<b>>,
             vars |-> <<x>>, coeffs |-> <<1>>, domain |-> domain])]

\* The variables of a constraint: those of its references and of its
\* enforcement literals.
UsedVariables(ct) ==
  {PositiveRef(ct.vars[i]) : i \in DOMAIN ct.vars} \cup
    {PositiveRef(ct.enforcement_literal[i]) : i \in DOMAIN ct.enforcement_literal}

\* ct is a linear constraint on one variable.
IsLinear1(ct) == ct.kind = "linear" /\ Len(ct.vars) = 1

\* UpdateLinear1Usage(ct, c); constraints are numbered from 0.
UpdateLinear1Usage(c, ct, k) ==
  LET old_var == c.constraint_to_linear1_var_[k + 1]
      n1 == IF old_var >= 0
            THEN [c.var_to_num_linear1_ EXCEPT ![old_var + 1] = @ - 1]
            ELSE c.var_to_num_linear1_
  IN IF IsLinear1(ct)
     THEN LET var == PositiveRef(ct.vars[1])
          IN [c EXCEPT !.constraint_to_linear1_var_[k + 1] = var,
                       !.var_to_num_linear1_ = [n1 EXCEPT ![var + 1] = @ + 1]]
     ELSE [c EXCEPT !.var_to_num_linear1_ = n1]

\* (mutant) The usage is counted and not stored.
AddVariableUsageUnstored(c, k) == UpdateLinear1Usage(c, c.constraints[k + 1], k)

\* The intervals of a constraint: the indices of the interval constraints a
\* scheduling constraint refers to; the other constraints have none.
UsedIntervals(ct) ==
  IF "intervals" \in DOMAIN ct THEN {ct.intervals[i] : i \in DOMAIN ct.intervals}
  ELSE {}

\* interval_usage_[i]++ for the intervals of `used`, or -- with by = -1.
CountIntervalUsage(usage, used, by) ==
  [i \in DOMAIN usage |-> IF (i - 1) \in used THEN usage[i] + by ELSE usage[i]]

AddVariableUsage(c, k) ==
  LET ct == c.constraints[k + 1]
      used == UsedVariables(ct)
      c1 == [c EXCEPT !.constraint_to_vars_[k + 1] = used,
                      !.constraint_to_intervals_[k + 1] = UsedIntervals(ct),
                      !.var_to_constraints_ =
                        [i \in DOMAIN c.var_to_constraints_ |->
                           IF (i - 1) \in used
                           THEN c.var_to_constraints_[i] \cup {k}
                           ELSE c.var_to_constraints_[i]],
                      !.interval_usage_ =
                        CountIntervalUsage(c.interval_usage_, UsedIntervals(ct), 1)]
  IN UpdateLinear1Usage(c1, ct, k)

ConstraintVariableGraphIsUpToDate(c) ==
  Len(c.constraint_to_vars_) = Len(c.constraints)

VariableIsOnlyUsedInEncoding(c, ref) ==
  IF ~ConstraintVariableGraphIsUpToDate(c) THEN FALSE
  ELSE c.var_to_num_linear1_[PositiveRef(ref) + 1]
         = Cardinality(c.var_to_constraints_[PositiveRef(ref) + 1])

\* AffineRelation::ClassSize(x): the number of variables of the class of x.
ClassSize(repo, x) == repo.size_[RepoGet(repo, x).representative]

VariableIsNotRepresentativeOfEquivalenceClass(c, var) ==
  IF ClassSize(c.affine_relations_, var) = 1 THEN TRUE
  ELSE GetAffineRelation(c, var).representative # var

VariableIsUniqueAndRemovable(c, ref) ==
  IF ~ConstraintVariableGraphIsUpToDate(c) THEN FALSE
  ELSE /\ Cardinality(c.var_to_constraints_[PositiveRef(ref) + 1]) = 1
       /\ VariableIsNotRepresentativeOfEquivalenceClass(c, PositiveRef(ref))
       /\ ~c.keep_all_feasible_solutions

VariableWithCostIsUniqueAndRemovable(c, ref) ==
  IF ~ConstraintVariableGraphIsUpToDate(c) THEN FALSE
  ELSE /\ ~c.keep_all_feasible_solutions
       /\ -1 \in c.var_to_constraints_[PositiveRef(ref) + 1]
       /\ Cardinality(c.var_to_constraints_[PositiveRef(ref) + 1]) = 2
       /\ VariableIsNotRepresentativeOfEquivalenceClass(c, PositiveRef(ref))

RECURSIVE AddVariableUsageFrom(_, _)
AddVariableUsageFrom(c, k) ==
  IF k >= Len(c.constraints) THEN c
  ELSE AddVariableUsageFrom(AddVariableUsage(c, k), k + 1)

UpdateNewConstraintsVariableUsage(c) ==
  LET old_size == Len(c.constraint_to_vars_)
      new_size == Len(c.constraints)
      c1 == [c EXCEPT !.constraint_to_vars_ =
                        Resize(c.constraint_to_vars_, new_size, {}),
                      !.constraint_to_linear1_var_ =
                        Resize(c.constraint_to_linear1_var_, new_size, -1),
                      !.constraint_to_intervals_ =
                        Resize(c.constraint_to_intervals_, new_size, {}),
                      !.interval_usage_ =
                        Resize(c.interval_usage_, new_size, 0)]
  IN AddVariableUsageFrom(c1, old_size)

\* A sorted vector without duplicates, which is what UsedVariables returns
\* and constraint_to_vars_ holds.
RECURSIVE UsageVector(_)
UsageVector(used) ==
  IF used = {} THEN << >>
  ELSE Append(UsageVector(used \ {DomMax(used)}), DomMax(used))

\* var_to_constraints_[var].erase(k) and var_to_constraints_[var].insert(k).
EraseUsage(v2c, var, k) == [v2c EXCEPT ![var + 1] = @ \ {k}]
InsertUsage(v2c, var, k) == [v2c EXCEPT ![var + 1] = @ \cup {k}]

\* (mutant) The variables left in the old usage keep the constraint.
EraseOldUsageSkipped(v2c, k, old_usage, i) == v2c

\* The last loop of UpdateConstraintVariableUsage: the constraint is erased
\* from the variables of the old usage from position i on.
RECURSIVE EraseOldUsage(_, _, _, _)
EraseOldUsage(v2c, k, old_usage, i) ==
  IF i > Len(old_usage) THEN v2c
  ELSE EraseOldUsage(EraseUsage(v2c, old_usage[i], k), k, old_usage, i + 1)

\* The merge of UpdateConstraintVariableUsage over the two sorted vectors,
\* at position i of the old usage and j of the new one; positions count
\* from 1.
RECURSIVE MergeUsage(_, _, _, _, _, _)
MergeUsage(v2c, k, old_usage, new_usage, i, j) ==
  IF j > Len(new_usage) THEN EraseOldUsage(v2c, k, old_usage, i)
  ELSE IF i <= Len(old_usage) /\ old_usage[i] < new_usage[j]
  THEN MergeUsage(EraseUsage(v2c, old_usage[i], k), k, old_usage, new_usage,
                  i + 1, j)
  ELSE IF i <= Len(old_usage) /\ old_usage[i] = new_usage[j]
  THEN MergeUsage(v2c, k, old_usage, new_usage, i + 1, j + 1)
  ELSE MergeUsage(InsertUsage(v2c, new_usage[j], k), k, old_usage, new_usage,
                  i, j + 1)

\* The interval usage after UpdateConstraintVariableUsage(c): the old
\* intervals are counted down, the new ones up.
ReplaceIntervalUsage(c, k, new_intervals) ==
  CountIntervalUsage(
    CountIntervalUsage(c.interval_usage_, c.constraint_to_intervals_[k + 1], -1),
    new_intervals, 1)

\* UpdateConstraintVariableUsage(c) once the old and the new usage of the
\* constraint are known.
ReplaceVariableUsage(c, k, old_usage, new_usage) ==
  UpdateLinear1Usage(
    [c EXCEPT !.constraint_to_vars_[k + 1] = new_usage,
              !.constraint_to_intervals_[k + 1] =
                UsedIntervals(c.constraints[k + 1]),
              !.interval_usage_ =
                ReplaceIntervalUsage(c, k, UsedIntervals(c.constraints[k + 1])),
              !.var_to_constraints_ =
                MergeUsage(c.var_to_constraints_, k, UsageVector(old_usage),
                           UsageVector(new_usage), 1, 1)],
    c.constraints[k + 1], k)

UpdateConstraintVariableUsage(c, k) ==
  ReplaceVariableUsage(c, k, c.constraint_to_vars_[k + 1],
                       UsedVariables(c.constraints[k + 1]))

ConstraintVariableUsageIsConsistent(c) ==
  IF c.is_unsat THEN TRUE
  ELSE IF Len(c.constraint_to_vars_) # Len(c.constraints) THEN FALSE
  ELSE \A k \in DOMAIN c.constraint_to_vars_ :
         c.constraint_to_vars_[k] = UsedVariables(c.constraints[k])

\* ConstraintProto::Clear(): the constraint a presolve rule leaves when it
\* removes one.
ClearedConstraint ==
  [kind |-> "not_set", enforcement_literal |-> << >>, vars |-> << >>,
   coeffs |-> << >>, domain |-> {}]

\* The per-variable tables have an entry for every variable of ct.
TablesCover(c, used) == \A var \in used : var < Len(c.var_to_constraints_)

\* ------------------------------------------------------ value encodings
\* Domain::Size(): the number of values.
Size(D) == Cardinality(D)

\* map[key], which creates an empty entry for a key the map does not hold.
HalfEntry(map, key) == IF key \in DOMAIN map THEN map[key] ELSE {}

\* The linear constraint InsertVarValueEncoding appends for a domain of two
\* values, and the relation it stores: var = coeff * literal's variable +
\* offset.
TwoValueTerm(literal, var_value, var_min, var_max) ==
  IF RefIsPositive(literal) = (var_value = var_max)
  THEN [coeff |-> var_max - var_min, offset |-> var_min]
  ELSE [coeff |-> var_min - var_max, offset |-> var_max]

TwoValueConstraint(literal, var, var_value, var_min, var_max) ==
  LET t == TwoValueTerm(literal, var_value, var_min, var_max)
  IN [kind |-> "linear", enforcement_literal |-> << >>,
      vars |-> <<var, PositiveRef(literal)>>,
      coeffs |-> <<1, -t.coeff>>, domain |-> {t.offset}]

\* The other value of a two-value domain, as the source computes it.
OtherValue(value, var_min, var_max) ==
  IF value = var_min THEN var_max ELSE var_min

\* The branch of InsertVarValueEncoding for a domain of two values; c1 holds
\* the new entry, other_key is the key of the other value.
InsertTwoValueEncoding(c1, literal, var, var_value, var_min, var_max, other_key, ub) ==
  IF other_key \in DOMAIN c1.encoding
  THEN IF c1.encoding[other_key] # NegatedRef(literal)
       THEN StoreBooleanEqualityRelation(
              c1, literal, NegatedRef(c1.encoding[other_key]), ub)
       ELSE c1
  ELSE StoreAffineRelation(
         [c1 EXCEPT
            !.encoding = Put(c1.encoding, other_key, NegatedRef(literal)),
            !.constraints =
              Append(c1.constraints,
                     TwoValueConstraint(literal, var, var_value,
                                        var_min, var_max))],
         Len(c1.constraints), var, PositiveRef(literal),
         TwoValueTerm(literal, var_value, var_min, var_max).coeff,
         TwoValueTerm(literal, var_value, var_min, var_max).offset, ub)

\* eq_half_encoding_[key].insert(literal), or the same on neq_half_encoding_.
InsertEqHalf(c, key, literal) ==
  [c EXCEPT !.eq_half_encoding =
              Put(c.eq_half_encoding, key,
                  HalfEntry(c.eq_half_encoding, key) \cup {literal})]

InsertNeqHalf(c, key, literal) ==
  [c EXCEPT !.neq_half_encoding =
              Put(c.neq_half_encoding, key,
                  HalfEntry(c.neq_half_encoding, key) \cup {literal})]

\* The branch of InsertVarValueEncoding for a larger domain.
InsertBothHalfEncodings(c1, literal, var, var_value) ==
  AddImplyInDomain(
    InsertNeqHalf(
      AddImplyInDomain(InsertEqHalf(c1, <<var, var_value>>, literal),
                       literal, var, {var_value}),
      <<var, var_value>>, NegatedRef(literal)),
    NegatedRef(literal), var, Complement({var_value}))

\* InsertVarValueEncoding after a new entry was inserted, which gave c1.
InsertNewEncoding(c1, literal, var, value, var_value, ub) ==
  IF Size(DomainOf(c1, var)) = 2
  THEN InsertTwoValueEncoding(
         c1, literal, var, var_value, MinOf(c1, var), MaxOf(c1, var),
         <<var, OtherValue(value, MinOf(c1, var), MaxOf(c1, var))>>, ub)
  ELSE InsertBothHalfEncodings(c1, literal, var, var_value)

InsertVarValueEncoding(c, literal, ref, value, ub) ==
  LET var == PositiveRef(ref)
      var_value == IF RefIsPositive(ref) THEN value ELSE -value
      key == <<var, var_value>>
  IN IF key \notin DOMAIN c.encoding
     THEN InsertNewEncoding([c EXCEPT !.encoding = Put(c.encoding, key, literal)],
                            literal, var, value, var_value, ub)
     ELSE IF literal # c.encoding[key]
     THEN StoreBooleanEqualityRelation(c, literal, c.encoding[key], ub)
     ELSE c

\* The literal installed as given, whichever half it comes with.
ImplyEqLiteralAsGiven(literal, imply_eq) == literal

\* imply_eq_literal: the literal that implies var == value.
ImplyEqLiteral(literal, imply_eq) ==
  IF imply_eq THEN literal ELSE NegatedRef(literal)

\* Returns [ctx, ret]; var is a positive reference (CHECK).
InsertHalfVarValueEncoding(c, literal, var, value, imply_eq, ub) ==
  LET key == <<var, value>>
      \* Both maps get an entry for key.
      c0 == [c EXCEPT !.eq_half_encoding =
                        Put(c.eq_half_encoding, key,
                            HalfEntry(c.eq_half_encoding, key)),
                      !.neq_half_encoding =
                        Put(c.neq_half_encoding, key,
                            HalfEntry(c.neq_half_encoding, key))]
      direct_map == IF imply_eq THEN c0.eq_half_encoding[key]
                    ELSE c0.neq_half_encoding[key]
      other_map == IF imply_eq THEN c0.neq_half_encoding[key]
                   ELSE c0.eq_half_encoding[key]
      inserted == literal \notin direct_map
      c1 == IF imply_eq
            THEN [c0 EXCEPT !.eq_half_encoding[key] = @ \cup {literal}]
            ELSE [c0 EXCEPT !.neq_half_encoding[key] = @ \cup {literal}]
      imply_eq_literal == ImplyEqLiteral(literal, imply_eq)
  IN IF ~inserted THEN [ctx |-> c0, ret |-> FALSE]
     ELSE IF NegatedRef(literal) \notin other_map
     THEN [ctx |-> c1, ret |-> TRUE]
     ELSE IF key \notin DOMAIN c1.encoding
     THEN [ctx |-> [c1 EXCEPT !.encoding =
                      Put(c1.encoding, key, imply_eq_literal)],
           ret |-> TRUE]
     ELSE IF imply_eq_literal # c1.encoding[key]
     THEN [ctx |-> StoreBooleanEqualityRelation(c1, imply_eq_literal,
                                                c1.encoding[key], ub),
           ret |-> TRUE]
     ELSE [ctx |-> c1, ret |-> TRUE]

\* Returns [found, literal]: literal is written only when the key is found.
HasVarValueEncoding(c, ref, value, ub) ==
  LET var == PositiveRef(ref)
      var_value == IF RefIsPositive(ref) THEN value ELSE -value
      key == <<var, var_value>>
  IN IF key \in DOMAIN c.encoding
     THEN [found |-> TRUE,
           literal |-> GetLiteralRepresentative(c, c.encoding[key], ub)]
     ELSE [found |-> FALSE, literal |-> 0]

\* (mutant) The entry replaces the table.
EncodeAsAlone(r, key) ==
  [ctx |-> [r.ctx EXCEPT !.encoding = Put(<< >>, key, r.ret)], ret |-> r.ret]

\* `encoding_[key] = r.ret; return r.ret` for the result r of a call.
EncodeAs(r, key) ==
  [ctx |-> [r.ctx EXCEPT !.encoding = Put(r.ctx.encoding, key, r.ret)],
   ret |-> r.ret]

\* The branch of GetOrCreateVarValueEncoding for a Boolean variable.
EncodeBoolean(c, var, value, representative) ==
  [ctx |-> [c EXCEPT !.encoding =
              Put(Put(c.encoding, <<var, 1>>, representative),
                  <<var, 0>>, NegatedRef(representative))],
   ret |-> IF value = 1 THEN representative ELSE NegatedRef(representative)]

\* `GetLiteralRepresentative(literal)`, negated or not, returned from c1.
ReturnRepresentative(c1, literal, negated, ub) ==
  [ctx |-> c1,
   ret |-> IF negated THEN NegatedRef(GetLiteralRepresentative(c1, literal, ub))
           ELSE GetLiteralRepresentative(c1, literal, ub)]

\* The branches of GetOrCreateVarValueEncoding that create a literal: b is the
\* result of NewBoolVar, which encodes `encoded`.
EncodeWithNewLiteral(b, var, encoded, negated, ub) ==
  ReturnRepresentative(InsertVarValueEncoding(b.ctx, b.ret, var, encoded, ub),
                       b.ret, negated, ub)

\* GetOrCreateVarValueEncoding on a domain of at least two values that holds
\* var_value and has no encoding of it.
CreateVarValueEncoding(c, var, value, var_value, var_min, var_max, ub) ==
  IF /\ Size(Dom(c, var)) = 2
     /\ <<var, OtherValue(var_value, var_min, var_max)>> \in DOMAIN c.encoding
  THEN EncodeAs(
         [ctx |-> c,
          ret |-> GetLiteralRepresentative(
                    c,
                    NegatedRef(c.encoding[<<var, OtherValue(var_value, var_min,
                                                            var_max)>>]),
                    ub)],
         <<var, var_value>>)
  ELSE IF Size(Dom(c, var)) = 2 /\ var_min = 0 /\ var_max = 1
  THEN EncodeBoolean(c, var, value, GetLiteralRepresentative(c, var, ub))
  ELSE IF Size(Dom(c, var)) = 2
  THEN EncodeWithNewLiteral(NewBoolVar(c, ub), var, var_max,
                            var_value # var_max, ub)
  ELSE EncodeWithNewLiteral(NewBoolVar(c, ub), var, var_value, FALSE, ub)

\* Returns [ctx, ret].
GetOrCreateVarValueEncoding(c, ref, value, ub) ==
  LET var == PositiveRef(ref)
      var_value == IF RefIsPositive(ref) THEN value ELSE -value
      key == <<var, var_value>>
  IN IF var_value \notin Dom(c, var) THEN GetOrCreateConstantVar(c, 0, ub)
     ELSE IF key \in DOMAIN c.encoding
     THEN [ctx |-> c, ret |-> GetLiteralRepresentative(c, c.encoding[key], ub)]
     ELSE IF Size(Dom(c, var)) = 1
     THEN EncodeAs(GetOrCreateConstantVar(c, 1, ub), key)
     ELSE CreateVarValueEncoding(c, var, value, var_value,
                                 MinOf(c, var), MaxOf(c, var), ub)

\* ---------------------------------------------------------- objective
RECURSIVE GCD64(_, _)
GCD64(a, b) == IF b = 0 THEN a ELSE GCD64(b, a % b)

\* objective_offset is a double; the model keeps it as the exact fraction
\* num / den in lowest terms.
Fraction(num, den) ==
  LET g == GCD64(Abs(num), den)
  IN [num |-> num \div g, den |-> den \div g]

\* The objective_* fields before ReadObjectiveFromProto has run.
EmptyObjective ==
  [objective_map |-> << >>, objective_offset |-> Fraction(0, 1),
   objective_scaling_factor |-> 1, objective_domain |-> AllValues,
   objective_domain_is_constraining |-> FALSE]

Erase(f, k) == [x \in (DOMAIN f) \ {k} |-> f[x]]

\* var_to_constraints_[var].erase(-1) left out.
EraseObjectiveUseSkipped(c, var) == c

\* var_to_constraints_[var].insert(-1) and .erase(-1).
InsertObjectiveUse(c, var) ==
  [c EXCEPT !.var_to_constraints_[var + 1] = @ \cup {-1}]
EraseObjectiveUse(c, var) ==
  [c EXCEPT !.var_to_constraints_[var + 1] = @ \ {-1}]

\* objective_map[var], an absent entry reading as 0.
MapCoeff(c, var) ==
  IF var \in DOMAIN c.objective.objective_map
  THEN c.objective.objective_map[var] ELSE 0

\* One term of the objective of the proto: the body of the loop of
\* ReadObjectiveFromProto.
RECURSIVE ReadObjectiveTerms(_, _, _)
ReadObjectiveTerms(c, obj, i) ==
  IF i > Len(obj.vars) THEN c
  ELSE LET ref == obj.vars[i]
           coeff == IF RefIsPositive(ref) THEN obj.coeffs[i] ELSE -obj.coeffs[i]
           var == PositiveRef(ref)
           sum == MapCoeff(c, var) + coeff
           c1 == IF sum = 0
                 THEN EraseObjectiveUse(
                        [c EXCEPT !.objective.objective_map = Erase(@, var)],
                        var)
                 ELSE InsertObjectiveUse(
                        [c EXCEPT !.objective.objective_map = Put(@, var, sum)],
                        var)
       IN ReadObjectiveTerms(c1, obj, i + 1)

\* obj is the objective of the working model: vars, coeffs, offset (a
\* double, kept as a fraction), scaling_factor and domain (the empty set when
\* the proto gives none).
ReadObjectiveFromProto(c, obj) ==
  LET c1 == [c EXCEPT !.objective =
               [objective_map |-> << >>,
                objective_offset |-> obj.offset,
                objective_scaling_factor |->
                  IF obj.scaling_factor = 0 THEN 1 ELSE obj.scaling_factor,
                objective_domain |->
                  IF obj.domain # {} THEN obj.domain ELSE AllValues,
                objective_domain_is_constraining |-> obj.domain # {}]]
  IN ReadObjectiveTerms(c1, obj, 1)

\* The test of OnlyInObjective without keep_all_feasible_solutions.
OnlyInObjectiveIgnoringFlag(c, var) ==
  /\ ~c.objective.objective_domain_is_constraining
  /\ ConstraintVariableGraphIsUpToDate(c)
  /\ c.var_to_constraints_[var + 1] = {-1}

\* "If a variable only appear in objective, we can fix it!"
OnlyInObjective(c, var) ==
  /\ ~c.keep_all_feasible_solutions
  /\ ~c.objective.objective_domain_is_constraining
  /\ ConstraintVariableGraphIsUpToDate(c)
  /\ c.var_to_constraints_[var + 1] = {-1}

\* Min() or Max() of the domain of var; of an empty domain the read yields
\* gv, whatever the build finds there.
MinOrGarbage(c, var, gv) == IF DomainIsEmpty(c, var) THEN gv ELSE MinOf(c, var)
MaxOrGarbage(c, var, gv) == IF DomainIsEmpty(c, var) THEN gv ELSE MaxOf(c, var)
FixedOrGarbage(c, var, ub) == IF DomainIsEmpty(c, var) THEN ub ELSE IsFixed(c, var)

\* The value the objective fixes a variable at when nothing else uses it.
ObjectiveFixValue(c, var, coeff, gv) ==
  IF coeff > 0 THEN MinOrGarbage(c, var, gv) ELSE MaxOrGarbage(c, var, gv)

\* objective_map.erase(var) and var_to_constraints_[var].erase(-1).
EraseEntry(c, var) ==
  [EraseObjectiveUse(c, var) EXCEPT !.objective.objective_map = Erase(@, var)]

\* "Process new term": c3 holds the new coefficient of the representative, oc
\* is offset_change after the substitution.
ProcessNewTerm(st, c3, representative, oc, ub, gv) ==
  IF c3.objective.objective_map[representative] = 0
  THEN [st EXCEPT !.offset_change = oc,
                  !.ctx = EraseEntry(c3, representative)]
  ELSE IF FixedOrGarbage(c3, representative, ub)
  THEN [st EXCEPT
          !.offset_change =
            oc + c3.objective.objective_map[representative]
                   * MinOrGarbage(c3, representative, gv),
          !.ctx = EraseEntry(c3, representative)]
  ELSE [st EXCEPT !.offset_change = oc,
                  !.ctx = InsertObjectiveUse(c3, representative)]

\* "Do the substitution" of the entry of coefficient coeff, already erased
\* from c2, by its relation r.
SubstituteEntry(st, c2, coeff, r, ub, gv) ==
  ProcessNewTerm(
    st,
    [c2 EXCEPT !.objective.objective_map =
       Put(@, r.representative,
           MapCoeff(c2, r.representative) + coeff * r.coeff)],
    r.representative, st.offset_change + coeff * r.offset, ub, gv)

\* The loop body after the attempt to fix the variable, whose result is fix.
CanonicalizeAfterFix(st, var, coeff, fix, ub, gv) ==
  IF ~fix.ret THEN [st EXCEPT !.ctx = fix.ctx, !.failed = TRUE]
  ELSE IF FixedOrGarbage(fix.ctx, var, ub)
  THEN [st EXCEPT
          !.offset_change = @ + coeff * MinOrGarbage(fix.ctx, var, gv),
          !.ctx = EraseEntry(fix.ctx, var)]
  ELSE IF GetAffineRelation(fix.ctx, var).representative = var
  THEN [st EXCEPT !.ctx = fix.ctx]
  ELSE SubstituteEntry(st, EraseEntry(fix.ctx, var), coeff,
                       GetAffineRelation(fix.ctx, var), ub, gv)

\* The body of the first loop of CanonicalizeObjective for one entry; st is
\* [ctx, offset_change, failed].
CanonicalizeEntry(st, var, ub, gv) ==
  IF st.failed \/ var \notin DOMAIN st.ctx.objective.objective_map THEN st
  ELSE CanonicalizeAfterFix(
         st, var, st.ctx.objective.objective_map[var],
         IF OnlyInObjective(st.ctx, var)
         THEN IntersectDomainWith(
                st.ctx, var,
                {ObjectiveFixValue(st.ctx, var,
                                   st.ctx.objective.objective_map[var], gv)},
                "nullptr")
         ELSE [ctx |-> st.ctx, ret |-> TRUE],
         ub, gv)

RECURSIVE CanonicalizeEntries(_, _, _, _, _)
CanonicalizeEntries(st, order, i, ub, gv) ==
  IF i > Len(order) THEN st
  ELSE CanonicalizeEntries(CanonicalizeEntry(st, order[i], ub, gv), order,
                           i + 1, ub, gv)

\* implied_domain and gcd over the entries of objective_map.
RECURSIVE ImpliedDomain(_, _)
ImpliedDomain(c, todo) ==
  IF todo = {} THEN {0}
  ELSE LET var == DomMax(todo)
       IN RelaxIfTooComplex(
            AdditionWith(ImpliedDomain(c, todo \ {var}),
                         MultiplicationBy(DomainOf(c, var),
                                          c.objective.objective_map[var])))

RECURSIVE CoeffGcd(_, _)
CoeffGcd(c, todo) ==
  IF todo = {} THEN 0
  ELSE LET var == DomMax(todo)
       IN GCD64(CoeffGcd(c, todo \ {var}),
                Abs(c.objective.objective_map[var]))

\* The end of CanonicalizeObjective on the objective o1 that the division by
\* the gcd gave.  Returns [ctx, ret].
ConstrainObjective(c, o1, implied_domain) ==
  IF o1.objective_domain = {}
  THEN [ctx |-> [c EXCEPT !.objective = o1], ret |-> FALSE]
  ELSE [ctx |-> [c EXCEPT !.objective =
                   [o1 EXCEPT !.objective_domain_is_constraining =
                      ~IsIncludedIn(
                         IntersectionWith(
                           implied_domain,
                           kint64min .. DomMax(o1.objective_domain)),
                         o1.objective_domain)]],
        ret |-> TRUE]

\* DivideObjective without the multiplication of the scaling factor.
DivideObjectiveKeepingFactor(c, implied_domain, gcd, d1, off1) ==
  ConstrainObjective(
    c,
    IF gcd > 1
    THEN [c.objective EXCEPT
            !.objective_map =
              [var \in DOMAIN c.objective.objective_map |->
                 CDiv(c.objective.objective_map[var], gcd)],
            !.objective_domain = InverseMultiplicationBy(d1, gcd),
            !.objective_offset = Fraction(off1.num, off1.den * gcd)]
    ELSE [c.objective EXCEPT !.objective_domain = d1,
                             !.objective_offset = off1],
    implied_domain)

\* "Maybe divide by GCD": d1 and off1 are the objective domain and offset
\* after the first loop.
DivideObjective(c, implied_domain, gcd, d1, off1) ==
  ConstrainObjective(
    c,
    IF gcd > 1
    THEN [c.objective EXCEPT
            !.objective_map =
              [var \in DOMAIN c.objective.objective_map |->
                 CDiv(c.objective.objective_map[var], gcd)],
            !.objective_domain = InverseMultiplicationBy(d1, gcd),
            !.objective_offset = Fraction(off1.num, off1.den * gcd),
            !.objective_scaling_factor = @ * gcd]
    ELSE [c.objective EXCEPT !.objective_domain = d1,
                             !.objective_offset = off1],
    implied_domain)

\* The objective after the first loop: new domain, offset, division by the
\* gcd.  Returns [ctx, ret].
CanonicalizeDomain(c, offset_change) ==
  DivideObjective(
    c, ImpliedDomain(c, DOMAIN c.objective.objective_map),
    CoeffGcd(c, DOMAIN c.objective.objective_map),
    SimplifyUsingImpliedDomain(
      IntersectionWith(AdditionWith(c.objective.objective_domain,
                                    {-offset_change}),
                       ImpliedDomain(c, DOMAIN c.objective.objective_map)),
      ImpliedDomain(c, DOMAIN c.objective.objective_map)),
    Fraction(c.objective.objective_offset.num
               + offset_change * c.objective.objective_offset.den,
             c.objective.objective_offset.den))

\* order is the order in which the hash map objective_map is iterated.
\* Returns [ctx, ret].
CanonicalizeAfterLoop(st) ==
  IF st.failed THEN [ctx |-> st.ctx, ret |-> FALSE]
  ELSE CanonicalizeDomain(st.ctx, st.offset_change)

CanonicalizeObjective(c, order, ub, gv) ==
  CanonicalizeAfterLoop(
    CanonicalizeEntries([ctx |-> c, offset_change |-> 0, failed |-> FALSE],
                        order, 1, ub, gv))

\* SubstituteTerm with the product added to the entry.
SubstituteTermAdding(c, var_in_equality, var, coeff, multiplier) ==
  IF var = var_in_equality THEN c
  ELSE IF MapCoeff(c, var) + coeff * multiplier = 0 THEN EraseEntry(c, var)
  ELSE InsertObjectiveUse(
         [c EXCEPT !.objective.objective_map =
            Put(@, var, MapCoeff(c, var) + coeff * multiplier)],
         var)

\* One term of the equality: the body of the loop of
\* SubstituteVariableInObjective, var and coeff being the term with the sign
\* of a negated reference folded into coeff.
SubstituteTerm(c, var_in_equality, var, coeff, multiplier) ==
  IF var = var_in_equality THEN c
  ELSE IF MapCoeff(c, var) - coeff * multiplier = 0 THEN EraseEntry(c, var)
  ELSE InsertObjectiveUse(
         [c EXCEPT !.objective.objective_map =
            Put(@, var, MapCoeff(c, var) - coeff * multiplier)],
         var)

RECURSIVE SubstituteTerms(_, _, _, _, _)
SubstituteTerms(c, var_in_equality, multiplier, equality, i) ==
  IF i > Len(equality.vars) THEN c
  ELSE SubstituteTerms(
         SubstituteTerm(
           c, var_in_equality, PositiveRef(equality.vars[i]),
           IF RefIsPositive(equality.vars[i]) THEN equality.coeffs[i]
           ELSE -equality.coeffs[i],
           multiplier),
         var_in_equality, multiplier, equality, i + 1)

\* "Deal with the offset": offset_min is offset.Min() after the
\* multiplication.
SubstituteOffset(c, offset_min) ==
  [c EXCEPT
     !.objective.objective_offset = Fraction(@.num + offset_min * @.den, @.den),
     !.objective.objective_domain = AdditionWith(@, {-offset_min}),
     !.objective.objective_domain_is_constraining = TRUE]

\* coeff_in_objective / coeff_in_equality.
Multiplier(c, var_in_equality, coeff_in_equality) ==
  CDiv(c.objective.objective_map[var_in_equality], coeff_in_equality)

\* new_vars_in_objective is nullptr.
SubstituteVariableInObjective(c, var_in_equality, coeff_in_equality, equality) ==
  SubstituteOffset(
    EraseEntry(
      SubstituteTerms(c, var_in_equality,
                      Multiplier(c, var_in_equality, coeff_in_equality),
                      equality, 1),
      var_in_equality),
    DomMin(MultiplicationBy(
             equality.domain,
             Multiplier(c, var_in_equality, coeff_in_equality))))

\* The keys in decreasing order: the entries written without the sort, in
\* an order the hash map may give.
RECURSIVE KeysInDecreasingOrder(_)
KeysInDecreasingOrder(keys) ==
  IF keys = {} THEN << >>
  ELSE <<DomMax(keys)>> \o KeysInDecreasingOrder(keys \ {DomMax(keys)})

\* std::sort of the entries: the keys in increasing order.
RECURSIVE SortedKeys(_)
SortedKeys(keys) ==
  IF keys = {} THEN << >>
  ELSE Append(SortedKeys(keys \ {DomMax(keys)}), DomMax(keys))

\* The objective of the working model once WriteObjectiveToProto has filled
\* it from the entries in the order `entries`.
WrittenObjective(c, entries) ==
  [vars |-> entries,
   coeffs |-> [i \in DOMAIN entries |-> c.objective.objective_map[entries[i]]],
   offset |-> c.objective.objective_offset,
   scaling_factor |-> c.objective.objective_scaling_factor,
   domain |-> c.objective.objective_domain]

\* obj is the objective of the working model before the call.  Returns
\* [ctx, obj].
WriteObjectiveToProto(c, obj) ==
  IF c.objective.objective_domain = {}
  THEN [ctx |-> [c EXCEPT !.is_unsat = TRUE], obj |-> obj]
  ELSE [ctx |-> c,
        obj |-> WrittenObjective(c, SortedKeys(DOMAIN c.objective.objective_map))]

\* ------------------------------------------------------------- inputs
Refs(c) == UNION {{v, NegatedRef(v)} : v \in 0 .. (NumVars(c) - 1)}

\* The outcomes of reading Min() and Max() of an empty domain, a read that
\* happens only when some domain is empty.
UbChoices(c) ==
  IF \E var \in 0 .. (NumVars(c) - 1) : DomainIsEmpty(c, var) THEN BOOLEAN
  ELSE {FALSE}

\* The caller's domain_modified flag.
FlagValues == {"nullptr", "false"}

\* A CpObjectiveProto with no field set.
NoObjective ==
  [vars |-> << >>, coeffs |-> << >>, offset |-> Fraction(0, 1),
   scaling_factor |-> 0, domain |-> {}]

\* obj is the objective of the working model that the call read or wrote, ct
\* the constraint it was given.
NoCall ==
  [op |-> "none", ref |-> 0, ref2 |-> 0, dom |-> {}, coeff |-> 0, offset |-> 0,
   retb |-> TRUE, reti |-> 0, dm_in |-> "nullptr", dm |-> "nullptr",
   obj |-> NoObjective, ct |-> ClearedConstraint, imply_eq |-> FALSE]


\* ------------------------------------------------------------- actions
Init ==
  /\ domains = << >>
  /\ is_unsat = FALSE
  /\ modified_domains = {}
  /\ table_size = 0
  /\ constant_to_ref = << >>
  /\ affine_relations_ = EmptyRepo
  /\ var_equiv_relations_ = EmptyRepo
  /\ constraints = << >>
  /\ affine_constraints = {}
  /\ encoding = << >>
  /\ eq_half_encoding = << >>
  /\ neq_half_encoding = << >>
  /\ constraint_to_vars_ = << >>
  /\ var_to_constraints_ = << >>
  /\ constraint_to_linear1_var_ = << >>
  /\ var_to_num_linear1_ = << >>
  /\ constraint_to_intervals_ = << >>
  /\ interval_usage_ = << >>
  /\ objective = EmptyObjective
  /\ keep_all_feasible_solutions = FALSE
  /\ calls = 0
  /\ last = NoCall

\* The context becomes c.
Becomes(c) ==
  /\ domains' = c.domains
  /\ is_unsat' = c.is_unsat
  /\ modified_domains' = c.modified_domains
  /\ table_size' = c.table_size
  /\ constant_to_ref' = c.constant_to_ref
  /\ affine_relations_' = c.affine_relations_
  /\ var_equiv_relations_' = c.var_equiv_relations_
  /\ constraints' = c.constraints
  /\ affine_constraints' = c.affine_constraints
  /\ encoding' = c.encoding
  /\ eq_half_encoding' = c.eq_half_encoding
  /\ neq_half_encoding' = c.neq_half_encoding
  /\ constraint_to_vars_' = c.constraint_to_vars_
  /\ var_to_constraints_' = c.var_to_constraints_
  /\ constraint_to_linear1_var_' = c.constraint_to_linear1_var_
  /\ var_to_num_linear1_' = c.var_to_num_linear1_
  /\ constraint_to_intervals_' = c.constraint_to_intervals_
  /\ interval_usage_' = c.interval_usage_
  /\ objective' = c.objective
  /\ keep_all_feasible_solutions' = c.keep_all_feasible_solutions

\* `last` records the call when the specification tracks calls (t).
Called(t, call) == last' = IF t THEN call ELSE NoCall

DoNewIntVar(D, ub, t) ==
  /\ NumVars(Ctx) < MaxVars
  /\ LET r == NewIntVar(Ctx, D, ub)
     IN /\ Becomes(r.ctx)
        /\ Called(t, [NoCall EXCEPT !.op = "NewIntVar", !.dom = D,
                                    !.reti = r.ret])

\* NewBoolVar for the one variable beyond MaxVars that the repositories have
\* room for.
DoNewBoolVar(t) ==
  /\ NumVars(Ctx) = MaxVars
  /\ LET r == NewBoolVar(Ctx, FALSE)
     IN /\ Becomes(r.ctx)
        /\ Called(t, [NoCall EXCEPT !.op = "NewBoolVar", !.reti = r.ret])

DoGetOrCreateConstantVar(cst, ub, t) ==
  /\ cst \in DOMAIN constant_to_ref \/ NumVars(Ctx) < MaxVars
  /\ LET r == GetOrCreateConstantVar(Ctx, cst, ub)
     IN /\ Becomes(r.ctx)
        /\ Called(t, [NoCall EXCEPT !.op = "GetOrCreateConstantVar",
                                    !.coeff = cst, !.reti = r.ret])

DoIntersectDomainWith(ref, D, dm, t) ==
  LET r == IntersectDomainWith(Ctx, ref, D, dm)
  IN /\ Becomes(r.ctx)
     /\ Called(t, [NoCall EXCEPT !.op = "IntersectDomainWith", !.ref = ref,
                                 !.dom = D, !.retb = r.ret, !.dm_in = dm,
                                 !.dm = r.domain_modified])

DoSetLiteralToFalse(lit, t) ==
  LET r == SetLiteralToFalse(Ctx, lit)
  IN /\ Becomes(r.ctx)
     /\ Called(t, [NoCall EXCEPT !.op = "SetLiteralToFalse", !.ref = lit,
                                 !.retb = r.ret])

DoSetLiteralToTrue(lit, t) ==
  LET r == SetLiteralToTrue(Ctx, lit)
  IN /\ Becomes(r.ctx)
     /\ Called(t, [NoCall EXCEPT !.op = "SetLiteralToTrue", !.ref = lit,
                                 !.retb = r.ret])

\* Callers pass two different variables (AffineRelation::TryAdd CHECKs it)
\* whose domains are not empty.
DoStoreAffineRelation(ref_x, ref_y, coeff, offset, ub, t) ==
  /\ PositiveRef(ref_x) # PositiveRef(ref_y)
  /\ ~DomainIsEmpty(Ctx, ref_x) /\ ~DomainIsEmpty(Ctx, ref_y)
  /\ Becomes(StoreAffineRelation(Ctx, ExternalCt, ref_x, ref_y, coeff, offset, ub))
  /\ Called(t, [NoCall EXCEPT !.op = "StoreAffineRelation", !.ref = ref_x,
                              !.ref2 = ref_y, !.coeff = coeff,
                              !.offset = offset])

\* The two CHECKs on entry are the caller's obligation.
DoStoreBooleanEqualityRelation(ref_a, ref_b, ub, t) ==
  /\ CanBeUsedAsLiteral(Ctx, ref_a, ub)
  /\ CanBeUsedAsLiteral(Ctx, ref_b, ub)
  /\ Becomes(StoreBooleanEqualityRelation(Ctx, ref_a, ref_b, ub))
  /\ Called(t, [NoCall EXCEPT !.op = "StoreBooleanEqualityRelation",
                              !.ref = ref_a, !.ref2 = ref_b])

DoInsertVarValueEncoding(literal, ref, value, ub, t) ==
  /\ CanBeUsedAsLiteral(Ctx, literal, ub)
  /\ Becomes(InsertVarValueEncoding(Ctx, literal, ref, value, ub))
  /\ Called(t, [NoCall EXCEPT !.op = "InsertVarValueEncoding",
                              !.ref = ref, !.ref2 = literal, !.coeff = value])

DoInsertHalfVarValueEncoding(literal, var, value, imply_eq, ub, t) ==
  /\ RefIsPositive(var)
  /\ CanBeUsedAsLiteral(Ctx, literal, ub)
  /\ LET r == InsertHalfVarValueEncoding(Ctx, literal, var, value, imply_eq, ub)
     IN /\ Becomes(r.ctx)
        /\ Called(t, [NoCall EXCEPT !.op = "InsertHalfVarValueEncoding",
                                    !.ref = var, !.ref2 = literal,
                                    !.coeff = value, !.imply_eq = imply_eq,
                                    !.retb = r.ret])

DoGetOrCreateVarValueEncoding(ref, value, ub, t) ==
  LET r == GetOrCreateVarValueEncoding(Ctx, ref, value, ub)
  IN /\ NumVars(r.ctx) <= MaxVars
     /\ Becomes(r.ctx)
     /\ Called(t, [NoCall EXCEPT !.op = "GetOrCreateVarValueEncoding",
                                 !.ref = ref, !.coeff = value,
                                 !.reti = r.ret])

DoReadObjectiveFromProto(obj, t) ==
  /\ TablesCover(Ctx, {PositiveRef(obj.vars[i]) : i \in DOMAIN obj.vars})
  /\ Becomes(ReadObjectiveFromProto(Ctx, obj))
  /\ Called(t, [NoCall EXCEPT !.op = "ReadObjectiveFromProto", !.obj = obj])

DoCanonicalizeObjective(order, ub, gv, t) ==
  LET r == CanonicalizeObjective(Ctx, order, ub, gv)
  IN /\ Becomes(r.ctx)
     /\ Called(t, [NoCall EXCEPT !.op = "CanonicalizeObjective",
                                 !.retb = r.ret])

\* The presolver appends the constraint ct to the working model.
DoAddConstraint(ct) ==
  /\ Becomes([Ctx EXCEPT !.constraints = Append(@, ct)])
  /\ last' = NoCall

\* The CHECKs on entry and the tables that cover the variables of the
\* equality are the caller's obligation; so is an equality whose domain is
\* one value (the DCHECK).
DoSubstituteVariableInObjective(var_in_equality, coeff_in_equality, equality, t) ==
  /\ equality.enforcement_literal = << >>
  /\ RefIsPositive(var_in_equality)
  /\ var_in_equality \in DOMAIN objective.objective_map
  /\ coeff_in_equality # 0
  /\ Divides(coeff_in_equality, objective.objective_map[var_in_equality])
  /\ TablesCover(Ctx, UsedVariables(equality) \cup {var_in_equality})
  /\ Cardinality(equality.domain) = 1
  /\ Becomes(SubstituteVariableInObjective(Ctx, var_in_equality,
                                           coeff_in_equality, equality))
  /\ Called(t, [NoCall EXCEPT !.op = "SubstituteVariableInObjective",
                              !.ref = var_in_equality,
                              !.coeff = coeff_in_equality,
                              !.ct = equality])

\* The objective the working model holds is the one the last tracked call
\* read or wrote.
DoWriteObjectiveToProto(t) ==
  LET r == WriteObjectiveToProto(Ctx, last.obj)
  IN /\ Becomes(r.ctx)
     /\ Called(t, [NoCall EXCEPT !.op = "WriteObjectiveToProto",
                                 !.obj = r.obj])

DoUpdateNewConstraintsVariableUsage(t) ==
  /\ \A k \in DOMAIN constraints :
       TablesCover(Ctx, UsedVariables(constraints[k]))
  /\ Becomes(UpdateNewConstraintsVariableUsage(Ctx))
  /\ Called(t, [NoCall EXCEPT !.op = "UpdateNewConstraintsVariableUsage"])

\* The DCHECK on entry and the range of c are the caller's obligation.
DoUpdateConstraintVariableUsage(k, t) ==
  /\ ConstraintVariableGraphIsUpToDate(Ctx)
  /\ k < Len(constraints)
  /\ TablesCover(Ctx, UsedVariables(constraints[k + 1])
                        \cup constraint_to_vars_[k + 1])
  /\ Becomes(UpdateConstraintVariableUsage(Ctx, k))
  /\ Called(t, [NoCall EXCEPT !.op = "UpdateConstraintVariableUsage",
                              !.ref = k])

DoAddImplication(a, b, t) ==
  /\ Becomes(AddImplication(Ctx, a, b))
  /\ Called(t, [NoCall EXCEPT !.op = "AddImplication", !.ref = a, !.ref2 = b])

\* A presolve rule rewrites constraint k of working_model in place; the
\* context is not called.
DoRewriteConstraint(k, ct) ==
  /\ k < Len(constraints)
  /\ constraints[k + 1] # ct
  /\ Becomes([Ctx EXCEPT !.constraints[k + 1] = ct])
  /\ last' = NoCall

\* The presolver copies the parameter into the field before it creates
\* variables.
DoKeepAllFeasibleSolutions ==
  /\ NumVars(Ctx) = 0
  /\ ~keep_all_feasible_solutions
  /\ Becomes([Ctx EXCEPT !.keep_all_feasible_solutions = TRUE])
  /\ UNCHANGED last

\* ------------------------------------------- the domain store, tracked
\* Domains NewIntVar is called with.
NewVarDomains == {{}, {1}, {0, 1}, {0, 1, 2}}
\* Constants GetOrCreateConstantVar is called with.
ConstValues == {0, 1}
\* Domains IntersectDomainWith is called with.
IntersectDomains == {{1}, {-1}, {0, 1}, {1, 2}, {-2, -1, 0}}

CreateStep ==
  \/ \E D \in NewVarDomains, ub \in UbChoices(Ctx) : DoNewIntVar(D, ub, TRUE)
  \/ \E cst \in ConstValues, ub \in UbChoices(Ctx) :
       DoGetOrCreateConstantVar(cst, ub, TRUE)

DomainStep ==
  \/ \E ref \in Refs(Ctx), D \in IntersectDomains, dm \in FlagValues :
       DoIntersectDomainWith(ref, D, dm, TRUE)
  \/ \E lit \in Refs(Ctx) : DoSetLiteralToFalse(lit, TRUE)
  \/ \E lit \in Refs(Ctx) : DoSetLiteralToTrue(lit, TRUE)

NextDom ==
  /\ CreateStep \/ DomainStep
  /\ UNCHANGED calls

SpecDom == Init /\ [][NextDom]_vars


\* ------------------------------------- the constant table, tracked
\* Domains and constants of the runs that only create variables: BigOne does
\* not fit an int.
WideVarDomains == {{}, {0}, {1}, {0, 1}, {1, 2}, {BigOne}}
WideConstValues == {0, 1, BigOne}

NextConst ==
  /\ \/ \E D \in WideVarDomains, ub \in UbChoices(Ctx) : DoNewIntVar(D, ub, TRUE)
     \/ \E cst \in WideConstValues, ub \in UbChoices(Ctx) :
          DoGetOrCreateConstantVar(cst, ub, TRUE)
  /\ UNCHANGED calls

SpecConst == Init /\ [][NextConst]_vars

\* --------------------------------------- the relations, not tracked
\* Domains of the variables the relations are stored on.
RelVarDomains == {{1}, {0, 1}, {0, 1, 2}}
\* The <<coeff, offset>> StoreAffineRelation is called with; the reference
\* ref_x has either sign, so the relations stored are x = c y + o with c in
\* {1, -1, 2, -2} and o in {0, 1, -1}.
RelTerms == {<<1, 0>>, <<2, 0>>, <<1, 1>>}

Vars(c) == 0 .. (NumVars(c) - 1)

NextAffine ==
  /\ \/ \E D \in RelVarDomains, ub \in UbChoices(Ctx) : DoNewIntVar(D, ub, FALSE)
     \/ \E ref_x \in Refs(Ctx), ref_y \in Vars(Ctx), term \in RelTerms,
           ub \in UbChoices(Ctx) :
          DoStoreAffineRelation(ref_x, ref_y, term[1], term[2], ub, FALSE)
  /\ UNCHANGED calls

SpecAffine == Init /\ [][NextAffine]_vars

\* ------------------------------------- the stored equalities, tracked
\* Domains of the variables the equalities are stored on.
BoolVarDomains == {{1}, {0, 1}}

NextBool ==
  /\ \/ \E D \in BoolVarDomains, ub \in UbChoices(Ctx) : DoNewIntVar(D, ub, FALSE)
     \/ \E ref_a \in Refs(Ctx), ref_b \in Vars(Ctx), ub \in UbChoices(Ctx) :
          DoStoreBooleanEqualityRelation(ref_a, ref_b, ub, TRUE)
     \/ \E lit \in Vars(Ctx) : DoSetLiteralToTrue(lit, FALSE)
  /\ Len(constraints') <= MaxCts
  /\ UNCHANGED calls

SpecBool == Init /\ [][NextBool]_vars

\* ------------------------- a restriction after a stored equality, tracked
NextRestrict ==
  /\ \/ \E D \in BoolVarDomains, ub \in UbChoices(Ctx) : DoNewIntVar(D, ub, FALSE)
     \/ \E ref_a \in Refs(Ctx), ref_b \in Vars(Ctx), ub \in UbChoices(Ctx) :
          /\ PositiveRef(ref_a) # ref_b
          /\ DoStoreBooleanEqualityRelation(ref_a, ref_b, ub, TRUE)
     \/ \E ref_x \in Vars(Ctx), ref_y \in Vars(Ctx), ub \in UbChoices(Ctx) :
          DoStoreAffineRelation(ref_x, ref_y, 1, 0, ub, TRUE)
     \/ \E lit \in Vars(Ctx) : DoSetLiteralToTrue(lit, TRUE)
     \/ \E ref \in Vars(Ctx) : DoIntersectDomainWith(ref, {1}, "nullptr", TRUE)
  /\ Len(constraints') <= MaxCts
  /\ UNCHANGED calls

SpecRestrict == Init /\ [][NextRestrict]_vars

\* ---------------------------------------- every operation, not tracked
\* Most constraints a run of every operation appends.
MaxModelCts == 2
\* Most operations a run of every operation calls.
MaxCalls == 4
FullVarDomains == {{}, {0, 1}, {1, 2}}
EncodedValues == {1, 2}
HalfEncodedValues == {1}
FullRelTerms == {<<1, 0>>, <<2, 0>>}
\* Reads of an empty domain.
GarbageValues == {0}

\* The orders in which a hash map of the given keys can be iterated.
Orders(keys) ==
  {o \in [1 .. Cardinality(keys) -> keys] :
     \A i, j \in DOMAIN o : i # j => o[i] # o[j]}

\* Objectives of the working model: one term on an existing variable.
ObjectiveCoeffs == {1, -2}
Objectives(c) ==
  {[vars |-> <<ref>>, coeffs |-> <<k>>, offset |-> Fraction(0, 1),
    scaling_factor |-> 0, domain |-> {}] : ref \in Vars(c), k \in ObjectiveCoeffs}

RelationStep ==
  \/ \E ref_x \in Vars(Ctx), ref_y \in Vars(Ctx), term \in FullRelTerms,
        ub \in UbChoices(Ctx) :
       DoStoreAffineRelation(ref_x, ref_y, term[1], term[2], ub, FALSE)
  \/ \E ref_a \in Refs(Ctx), ref_b \in Vars(Ctx), ub \in UbChoices(Ctx) :
       DoStoreBooleanEqualityRelation(ref_a, ref_b, ub, FALSE)

EncodingStep ==
  \/ \E literal \in Refs(Ctx), ref \in Vars(Ctx), value \in EncodedValues,
        ub \in UbChoices(Ctx) :
       DoInsertVarValueEncoding(literal, ref, value, ub, FALSE)
  \/ \E literal \in Refs(Ctx), var \in Vars(Ctx), value \in HalfEncodedValues,
        imply_eq \in BOOLEAN, ub \in UbChoices(Ctx) :
       DoInsertHalfVarValueEncoding(literal, var, value, imply_eq, ub, FALSE)
  \/ \E ref \in Vars(Ctx), value \in EncodedValues, ub \in UbChoices(Ctx) :
       DoGetOrCreateVarValueEncoding(ref, value, ub, FALSE)

ObjectiveStep ==
  \/ \E obj \in Objectives(Ctx) : DoReadObjectiveFromProto(obj, FALSE)
  \/ \E order \in Orders(DOMAIN objective.objective_map),
        ub \in UbChoices(Ctx), gv \in GarbageValues :
       DoCanonicalizeObjective(order, ub, gv, FALSE)
  \/ DoUpdateNewConstraintsVariableUsage(FALSE)
  \/ DoKeepAllFeasibleSolutions

FullDomainStep ==
  \/ \E D \in FullVarDomains, ub \in UbChoices(Ctx) : DoNewIntVar(D, ub, FALSE)
  \/ \E cst \in ConstValues, ub \in UbChoices(Ctx) :
       DoGetOrCreateConstantVar(cst, ub, FALSE)
  \/ \E ref \in Refs(Ctx) : DoIntersectDomainWith(ref, {1}, "nullptr", FALSE)
  \/ \E lit \in Vars(Ctx) : DoSetLiteralToFalse(lit, FALSE)
  \/ \E lit \in Vars(Ctx) : DoSetLiteralToTrue(lit, FALSE)

Next ==
  /\ calls < MaxCalls
  /\ FullDomainStep \/ RelationStep \/ EncodingStep \/ ObjectiveStep
  /\ Len(constraints') <= MaxModelCts
  /\ calls' = calls + 1

Spec == Init /\ [][Next]_vars

\* ------------------------------------ value encodings on demand, tracked
\* Domains of the variables whose values are encoded: BigOne - 0 does not fit
\* an int.
EncVarDomains == {{0, 1}, {1, 2}, {0, 2}, {0, 1, 2}, {0, BigOne}}
\* Values GetOrCreateVarValueEncoding is called with.
EncValues == {0, 1, 2, BigOne}

NextEnc ==
  /\ \/ \E D \in EncVarDomains, ub \in UbChoices(Ctx) : DoNewIntVar(D, ub, FALSE)
     \/ \E ref \in Vars(Ctx), value \in EncValues, ub \in UbChoices(Ctx) :
          DoGetOrCreateVarValueEncoding(ref, value, ub, TRUE)
     \/ \E ref \in Vars(Ctx), value \in EncValues :
          DoIntersectDomainWith(ref, {value}, "nullptr", FALSE)
  /\ Len(constraints') <= MaxCts
  /\ UNCHANGED calls

SpecEnc == Init /\ [][NextEnc]_vars

\* ------------------------------- the constraint-variable graph, tracked
\* Domains of the variables the constraints are on.
GraphVarDomains == {{}, {0, 1}}

\* What a rule rewrites a constraint to: nothing, or an implication.
Rewrites(c) ==
  {ClearedConstraint} \cup
    {[kind |-> "bool_and", enforcement_literal |-> <<a>>, vars |-> <<b>>,
      coeffs |-> << >>, domain |-> {}] : a \in Vars(c), b \in Vars(c)}

NextGraph ==
  /\ \/ \E D \in GraphVarDomains, ub \in UbChoices(Ctx) : DoNewIntVar(D, ub, FALSE)
     \/ \E a \in Vars(Ctx), b \in Vars(Ctx) : DoAddImplication(a, b, FALSE)
     \/ \E k \in 0 .. (MaxModelCts - 1), ct \in Rewrites(Ctx) :
          DoRewriteConstraint(k, ct)
     \/ DoUpdateNewConstraintsVariableUsage(TRUE)
     \/ \E k \in 0 .. (MaxModelCts - 1) : DoUpdateConstraintVariableUsage(k, TRUE)
  /\ Len(constraints') <= MaxModelCts
  /\ UNCHANGED calls

SpecGraph == Init /\ [][NextGraph]_vars

\* ------------------------------------------------- the objective, tracked
\* Domains of the variables of the objective.
ObjVarDomains == {{0, 1}, {1, 2}, {2}}
\* The coefficient of a variable in the objective of the working model, 0
\* for a variable it does not hold.
ObjCoeffs == {0, 2, -3}
\* offset, scaling_factor and domain of the objective of the working model.
ObjHeaders ==
  {[offset |-> Fraction(0, 1), scaling_factor |-> 0, domain |-> {}],
   [offset |-> Fraction(1, 1), scaling_factor |-> 2, domain |-> 0 .. 4]}
\* The <<coeff, offset>> of the relations between the variables of the
\* objective.
ObjRelTerms == {<<1, 0>>, <<2, 1>>}
\* The objective with the terms coeffs[var] * var in the order `entries`.
ObjProto(entries, coeffs, h) ==
  [vars |-> entries, coeffs |-> [i \in DOMAIN entries |-> coeffs[entries[i]]],
   offset |-> h.offset, scaling_factor |-> h.scaling_factor,
   domain |-> h.domain]
ObjProtos(c) ==
  {ObjProto(SortedKeys({var \in Vars(c) : coeffs[var] # 0}), coeffs, h) :
     coeffs \in [Vars(c) -> ObjCoeffs], h \in ObjHeaders}

NextObj ==
  /\ \/ \E D \in ObjVarDomains, ub \in UbChoices(Ctx) : DoNewIntVar(D, ub, FALSE)
     \/ DoKeepAllFeasibleSolutions
     \/ \E ref_x \in Refs(Ctx), ref_y \in Vars(Ctx), term \in ObjRelTerms,
           ub \in UbChoices(Ctx) :
          DoStoreAffineRelation(ref_x, ref_y, term[1], term[2], ub, FALSE)
     \/ \E obj \in ObjProtos(Ctx) : DoReadObjectiveFromProto(obj, FALSE)
     \/ \E order \in Orders(DOMAIN objective.objective_map),
           ub \in UbChoices(Ctx), gv \in GarbageValues :
          DoCanonicalizeObjective(order, ub, gv, TRUE)
  /\ UNCHANGED calls

SpecObj == Init /\ [][NextObj]_vars

\* ---------------------------- the objective on three variables, tracked
\* Domains of the variables NewIntVar creates.
CanonVarDomains == {{0, 1}, {1, 2}}
\* The objective of the working model: one term, and a domain.
OneTermProtos(c) ==
  {ObjProto(<<var>>, [v \in Vars(c) |-> k], h) :
     var \in Vars(c), k \in ObjCoeffs \ {0},
     h \in {g \in ObjHeaders : g.domain # {}}}

\* The variable beyond MaxVars is a Boolean one that NewBoolVar creates; the
\* relations, each of a variable on an earlier one, are stored on the three
\* variables before the objective is read, which happens once.
NextCanon ==
  /\ \/ \E D \in CanonVarDomains, ub \in UbChoices(Ctx) : DoNewIntVar(D, ub, FALSE)
     \/ DoNewBoolVar(FALSE)
     \/ /\ NumVars(Ctx) = MaxVars + 1
        /\ objective = EmptyObjective
        /\ \E ref_x \in Refs(Ctx), ref_y \in Vars(Ctx), term \in ObjRelTerms,
              ub \in UbChoices(Ctx) :
             /\ ref_y < PositiveRef(ref_x)
             /\ DoStoreAffineRelation(ref_x, ref_y, term[1], term[2], ub, FALSE)
     \/ /\ NumVars(Ctx) = MaxVars + 1
        /\ objective = EmptyObjective
        /\ \E obj \in OneTermProtos(Ctx) : DoReadObjectiveFromProto(obj, FALSE)
     \/ \E order \in Orders(DOMAIN objective.objective_map),
           ub \in UbChoices(Ctx), gv \in GarbageValues :
          DoCanonicalizeObjective(order, ub, gv, TRUE)
  /\ UNCHANGED calls

SpecCanon == Init /\ [][NextCanon]_vars

\* ------------------------- the objective of the working model, tracked
\* The terms of the objective of the working model: two terms on one
\* variable add up, and cancel when the sum is zero.
ProtoCoeffs == {2, -3}
ProtoTerms(c) == {<<ref, k>> : ref \in Refs(c), k \in ProtoCoeffs}
TermLists(c) == UNION {[1 .. n -> ProtoTerms(c)] : n \in 0 .. MaxVars}
TermProtos(c) ==
  {[vars |-> [i \in DOMAIN terms |-> terms[i][1]],
    coeffs |-> [i \in DOMAIN terms |-> terms[i][2]],
    offset |-> h.offset, scaling_factor |-> h.scaling_factor,
    domain |-> h.domain] : terms \in TermLists(c), h \in ObjHeaders}

\* The equalities a x + 2 y - z = k a variable x is substituted by; y and z
\* are references to other variables, possibly to the same one.
EqualityCoeffs == {1, -3}
EqualityValues == {0, 1}
EqualityOn(x, y, z, a, k) ==
  [kind |-> "linear", enforcement_literal |-> << >>, vars |-> <<x, y, z>>,
   coeffs |-> <<a, 2, -1>>, domain |-> {k}]
Equalities(c) ==
  {equality \in {EqualityOn(x, y, z, a, k) :
                   x \in Vars(c), y \in Refs(c), z \in Refs(c),
                   a \in EqualityCoeffs, k \in EqualityValues} :
     /\ PositiveRef(equality.vars[2]) # equality.vars[1]
     /\ PositiveRef(equality.vars[3]) # equality.vars[1]}

\* The working model holds at most MaxCts equalities, and a variable is
\* substituted by one of them; the objective is read once.
NextProto ==
  /\ \/ \E D \in CanonVarDomains, ub \in UbChoices(Ctx) : DoNewIntVar(D, ub, FALSE)
     \/ \E equality \in Equalities(Ctx) : DoAddConstraint(equality)
     \/ /\ objective = EmptyObjective
        /\ \E obj \in TermProtos(Ctx) : DoReadObjectiveFromProto(obj, TRUE)
     \/ \E k \in DOMAIN constraints :
          DoSubstituteVariableInObjective(constraints[k].vars[1],
                                          constraints[k].coeffs[1],
                                          constraints[k], TRUE)
     \/ DoWriteObjectiveToProto(TRUE)
  /\ Len(constraints') <= MaxCts
  /\ UNCHANGED calls

SpecProto == Init /\ [][NextProto]_vars

\* ------------------------------ relations with wide coefficients, tracked
\* The <<coeff, offset>> StoreAffineRelation is called with: BigOne does not
\* fit an int.
WideRelTerms == {<<1, 0>>, <<2, 1>>, <<BigOne, 0>>}

NextWide ==
  /\ \/ \E D \in RelVarDomains, ub \in UbChoices(Ctx) : DoNewIntVar(D, ub, FALSE)
     \/ \E ref_x \in Refs(Ctx), ref_y \in Refs(Ctx), term \in WideRelTerms,
           ub \in UbChoices(Ctx) :
          DoStoreAffineRelation(ref_x, ref_y, term[1], term[2], ub, TRUE)
  /\ UNCHANGED calls

SpecWide == Init /\ [][NextWide]_vars

\* ------------------- relations stored before the domains are narrowed
\* Domains of the variables: a Boolean one and one that becomes usable as a
\* literal when it is restricted to [0, 1].
LitVarDomains == {{0, 1}, {0, 1, 2}}
\* The <<coeff, offset>> StoreAffineRelation is called with.
LitRelTerms == {<<1, 0>>, <<1, 1>>, <<1, 2>>}

NextLit ==
  /\ \/ \E D \in LitVarDomains : DoNewIntVar(D, FALSE, FALSE)
     \/ \E ref_x \in Refs(Ctx), ref_y \in Vars(Ctx), term \in LitRelTerms :
          DoStoreAffineRelation(ref_x, ref_y, term[1], term[2], FALSE, TRUE)
     \/ \E ref \in Vars(Ctx) : DoIntersectDomainWith(ref, {0, 1}, "nullptr", TRUE)
  /\ UNCHANGED calls

SpecLit == Init /\ [][NextLit]_vars

\* ------------------------- one-variable linear constraints, tracked
\* The linear constraints x in {1} on one variable.
Linear1Constraints(c) ==
  {[kind |-> "linear", enforcement_literal |-> << >>, vars |-> <<x>>,
    coeffs |-> <<1>>, domain |-> {1}] : x \in Vars(c)}

\* var_to_num_linear1_ is kept from running away below zero.
NextLinear1 ==
  /\ \/ DoNewIntVar({0, 1}, FALSE, FALSE)
     \/ \E ct \in Linear1Constraints(Ctx) : DoAddConstraint(ct)
     \/ \E k \in 0 .. (MaxModelCts - 1),
           ct \in Linear1Constraints(Ctx) \cup {ClearedConstraint} :
          DoRewriteConstraint(k, ct)
     \/ DoUpdateNewConstraintsVariableUsage(TRUE)
     \/ \E k \in 0 .. (MaxModelCts - 1) : DoUpdateConstraintVariableUsage(k, TRUE)
  /\ Len(constraints') <= MaxModelCts
  /\ \A i \in DOMAIN var_to_num_linear1_' : var_to_num_linear1_'[i] >= -MaxModelCts
  /\ UNCHANGED calls

SpecLinear1 == Init /\ [][NextLinear1]_vars

\* ------------------------ the usage of variables and intervals, tracked
\* A scheduling constraint on the interval constraints of the given indices.
NoOverlap(intervals) ==
  [kind |-> "no_overlap", enforcement_literal |-> << >>, vars |-> << >>,
   coeffs |-> << >>, domain |-> {}, intervals |-> intervals]

\* The scheduling constraints on constraints the working model holds.
SchedulingConstraints(c) ==
  {NoOverlap(<<i>>) : i \in 0 .. (Len(c.constraints) - 1)} \cup
    {NoOverlap(<<i, j>>) : i, j \in 0 .. (Len(c.constraints) - 1)}

NextUsage ==
  /\ \/ DoNewIntVar({0, 1}, FALSE, FALSE)
     \/ \E a \in Vars(Ctx), b \in Vars(Ctx) : DoAddImplication(a, b, FALSE)
     \/ \E ct \in SchedulingConstraints(Ctx) : DoAddConstraint(ct)
     \/ \E k \in 0 .. (MaxModelCts - 1),
           ct \in Rewrites(Ctx) \cup SchedulingConstraints(Ctx) :
          DoRewriteConstraint(k, ct)
     \/ DoUpdateNewConstraintsVariableUsage(TRUE)
     \/ \E k \in 0 .. (MaxModelCts - 1) : DoUpdateConstraintVariableUsage(k, TRUE)
  /\ Len(constraints') <= MaxModelCts
  /\ UNCHANGED calls

SpecUsage == Init /\ [][NextUsage]_vars

\* ------------------- the objective read once, then rewritten, tracked
\* Domains of the variables: a Boolean one and a fixed one.
SentinelVarDomains == {{0, 1}, {2}}
\* The objective of the working model: terms that add up or cancel, no
\* domain.
SentinelProtos(c) ==
  {obj \in TermProtos(c) : obj.scaling_factor = 0}
\* The equalities x + 2 y - z = 0 a variable x is substituted by.
SentinelEqualities(c) ==
  {equality \in Equalities(c) :
     equality.coeffs[1] = 1 /\ equality.domain = {0}}

\* The objective is read once; relations, each of a variable on an earlier
\* one, and equalities come before and after it, CanonicalizeObjective and
\* SubstituteVariableInObjective follow it in any order as long as the
\* coefficients, the offset and the scaling factor stay within an int64.
NextSentinel ==
  /\ \/ \E D \in SentinelVarDomains, ub \in UbChoices(Ctx) :
          DoNewIntVar(D, ub, FALSE)
     \/ \E ref_x \in Refs(Ctx), ref_y \in Vars(Ctx), term \in ObjRelTerms,
           ub \in UbChoices(Ctx) :
          /\ ref_y < PositiveRef(ref_x)
          /\ DoStoreAffineRelation(ref_x, ref_y, term[1], term[2], ub, FALSE)
     \/ \E equality \in SentinelEqualities(Ctx) : DoAddConstraint(equality)
     \/ /\ objective = EmptyObjective
        /\ \E obj \in SentinelProtos(Ctx) : DoReadObjectiveFromProto(obj, TRUE)
     \/ \E order \in Orders(DOMAIN objective.objective_map),
           ub \in UbChoices(Ctx), gv \in GarbageValues :
          DoCanonicalizeObjective(order, ub, gv, TRUE)
     \/ \E k \in DOMAIN constraints :
          DoSubstituteVariableInObjective(constraints[k].vars[1],
                                          constraints[k].coeffs[1],
                                          constraints[k], TRUE)
  /\ Len(constraints') <= MaxCts
  /\ \A var \in DOMAIN objective'.objective_map :
       objective'.objective_map[var] \in AllValues
  /\ objective'.objective_offset.num \in AllValues
  /\ objective'.objective_scaling_factor \in AllValues
  /\ UNCHANGED calls

SpecSentinel == Init /\ [][NextSentinel]_vars

\* -------------------------------------- half value encodings, tracked
\* Domains of the variables: Boolean ones, which give the literals, and one
\* of three values.
HalfVarDomains == {{0, 1}, {0, 1, 2}}
\* The values the half encodings are about.
HalfValues == {1, 2}

\* The half encodings are about the values of the first variable: both
\* halves for the first value, "differs from" for the others.
NextHalf ==
  /\ \/ \E D \in HalfVarDomains, ub \in UbChoices(Ctx) : DoNewIntVar(D, ub, FALSE)
     \/ \E literal \in Refs(Ctx), var \in Vars(Ctx) \cap {0},
           value \in HalfValues, imply_eq \in BOOLEAN, ub \in UbChoices(Ctx) :
          /\ imply_eq => value = DomMin(HalfValues)
          /\ DoInsertHalfVarValueEncoding(literal, var, value, imply_eq, ub, TRUE)
  /\ UNCHANGED calls

SpecHalf == Init /\ [][NextHalf]_vars

\* ----------------- variables the objective alone uses, tracked
\* The objective is read once, after the relations; constraints on one
\* variable come and are registered at any time.
NextFix ==
  /\ \/ \E D \in CanonVarDomains, ub \in UbChoices(Ctx) : DoNewIntVar(D, ub, FALSE)
     \/ DoKeepAllFeasibleSolutions
     \/ /\ objective = EmptyObjective
        /\ \E ref_x \in Refs(Ctx), ref_y \in Vars(Ctx), term \in ObjRelTerms,
              ub \in UbChoices(Ctx) :
             /\ ref_y < PositiveRef(ref_x)
             /\ DoStoreAffineRelation(ref_x, ref_y, term[1], term[2], ub, FALSE)
     \/ \E ct \in Linear1Constraints(Ctx) : DoAddConstraint(ct)
     \/ DoUpdateNewConstraintsVariableUsage(FALSE)
     \/ /\ objective = EmptyObjective
        /\ \E obj \in ObjProtos(Ctx) : DoReadObjectiveFromProto(obj, FALSE)
     \/ \E order \in Orders(DOMAIN objective.objective_map),
           ub \in UbChoices(Ctx), gv \in GarbageValues :
          DoCanonicalizeObjective(order, ub, gv, TRUE)
  /\ Len(constraints') <= MaxModelCts
  /\ UNCHANGED calls

SpecFix == Init /\ [][NextFix]_vars

\* ------------------------------------------------------------- claims
\* C1: IntersectDomainWith(r, D) on a variable whose domain is not empty
\* leaves domains[positive(r)] equal to the old domain intersected with D (with
\* the negation of D when r is a negated reference) and every other domain
\* unchanged; when the domain changed the variable's bit of modified_domains
\* is set; it returns false exactly when the new domain is empty, and then
\* is_unsat is set, and otherwise is_unsat is left as it was.
C1_IntersectContract ==
  [][(last'.op = "IntersectDomainWith" /\ ~DomainIsEmpty(Ctx, last'.ref)) =>
       LET var == PositiveRef(last'.ref)
           D == IF last'.ref >= 0 THEN last'.dom ELSE {-x : x \in last'.dom}
           old == domains[var + 1]
       IN /\ Len(domains') = Len(domains)
          /\ domains'[var + 1] = old \cap D
          /\ \A v \in 1 .. Len(domains) : v # var + 1 => domains'[v] = domains[v]
          /\ (domains'[var + 1] # old => var \in modified_domains')
          /\ (last'.retb = FALSE <=> domains'[var + 1] = {})
          /\ (domains'[var + 1] = {} => is_unsat')
          /\ (domains'[var + 1] # {} => is_unsat' = is_unsat)]_vars

\* A call on a negated reference has shrunk a domain to a non-empty one.
C1_Witness ==
  /\ last.op = "IntersectDomainWith"
  /\ last.ref < 0
  /\ last.retb
  /\ last.dm = "true"
  /\ PositiveRef(last.ref) \in modified_domains
  /\ Cardinality(domains[PositiveRef(last.ref) + 1]) = 1
  /\ ~is_unsat

\* C5: IntersectDomainWith(r, D) where the signed domain of r is included in D
\* returns true and changes neither the context nor the caller's flag; and a
\* second call with the same arguments, right after any call, changes nothing
\* more.
C5_IntersectNoop ==
  [][last'.op = "IntersectDomainWith" =>
       /\ (DomainOf(Ctx, last'.ref) \subseteq last'.dom =>
             /\ last'.retb
             /\ last'.dm = last'.dm_in
             /\ UNCHANGED <<domains, is_unsat, modified_domains, table_size,
                            constant_to_ref, affine_relations_,
                            var_equiv_relations_, constraints,
                            affine_constraints>>)
       /\ LET again == IntersectDomainWith(Ctx', last'.ref, last'.dom, last'.dm)
          IN again.ctx = Ctx' /\ again.domain_modified = last'.dm]_vars

\* A call with a flag has returned without touching the flag, on a variable
\* whose domain is not fixed and was never modified.
C5_Witness ==
  /\ last.op = "IntersectDomainWith"
  /\ last.dm_in = "false" /\ last.dm = "false"
  /\ last.retb
  /\ Cardinality(domains[PositiveRef(last.ref) + 1]) = 2
  /\ last.dom # domains[PositiveRef(last.ref) + 1]
  /\ PositiveRef(last.ref) \notin modified_domains


\* C6: after any sequence of NewIntVar and GetOrCreateConstantVar calls,
\* GetOrCreateConstantVar(k) returns the index of a variable whose domain is
\* exactly {k}, and a later call with the same k returns the same index.
C6_ConstantVarHoldsConstant ==
  last.op = "GetOrCreateConstantVar" =>
    /\ domains[last.reti + 1] = {last.coeff}
    /\ GetOrCreateConstantVar(Ctx, last.coeff, FALSE).ret = last.reti


\* C7: for every variable v, the representative rep that GetAffineRelation(v)
\* returns is a fixed point: GetAffineRelation(rep) = (rep, 1, 0).
C7_RepresentativeIsFixedPoint ==
  \A v \in 0 .. (NumVars(Ctx) - 1) :
    LET rep == GetAffineRelation(Ctx, v).representative
    IN GetAffineRelation(Ctx, rep) =
         [representative |-> rep, coeff |-> 1, offset |-> 0]

\* C8: every relation var_equiv_relations_ holds has |coeff| = 1 and
\* offset = 0, so the two CHECKs of GetVariableRepresentative pass for every
\* reference.
C8_EquivRelationsAreSigns ==
  \A v \in 0 .. (NumVars(Ctx) - 1) :
    /\ Abs(var_equiv_relations_.coeff_[v]) = 1
    /\ var_equiv_relations_.offset_[v] = 0
    /\ Abs(RepoGet(var_equiv_relations_, v).coeff) = 1
    /\ RepoGet(var_equiv_relations_, v).offset = 0
    /\ VariableRepresentativeChecks(Ctx, v)
    /\ VariableRepresentativeChecks(Ctx, NegatedRef(v))

\* var_equiv_relations_ holds a relation x = -y between two unfixed variables.
C8_Witness ==
  \E v \in 0 .. (NumVars(Ctx) - 1) :
    /\ var_equiv_relations_.representative_[v] # v
    /\ var_equiv_relations_.coeff_[v] = -1
    /\ GetVariableRepresentative(Ctx, v) < 0
    /\ Cardinality(domains[v + 1]) > 1


C10_RestrictionIsVisible ==
  [][/\ (/\ last.op = "StoreBooleanEqualityRelation"
         /\ GetLiteralRepresentative(Ctx, last.ref, FALSE) =
              GetLiteralRepresentative(Ctx, last.ref2, FALSE)
         /\ last'.op = "SetLiteralToTrue"
         /\ last'.ref = last.ref) =>
          LiteralIsTrue(Ctx', last.ref2)
     /\ (/\ last.op = "StoreAffineRelation"
         /\ GetAffineRelation(Ctx, last.ref).representative =
              GetAffineRelation(Ctx, last.ref2).representative
         /\ last'.op = "IntersectDomainWith"
         /\ last'.ref = last.ref) =>
          (MinOf(Ctx', last.ref2) = 1 /\ MaxOf(Ctx', last.ref2) = 1)]_vars

C10_RestrictionStaysOnOneSide ==
  [][(/\ \/ /\ last.op = "StoreBooleanEqualityRelation"
            /\ last'.op = "SetLiteralToTrue"
         \/ /\ last.op = "StoreAffineRelation"
            /\ last'.op = "IntersectDomainWith"
      /\ last'.ref = last.ref
      /\ PositiveRef(last.ref2) # PositiveRef(last.ref)) =>
       /\ Dom(Ctx', PositiveRef(last.ref2)) = Dom(Ctx, PositiveRef(last.ref2))
       /\ Dom(Ctx', PositiveRef(last.ref)) =
            Dom(Ctx, PositiveRef(last.ref)) \cap {1}
       /\ (Dom(Ctx', PositiveRef(last.ref)) # Dom(Ctx, PositiveRef(last.ref))
             => PositiveRef(last.ref) \in modified_domains')
       /\ affine_relations_' = affine_relations_
       /\ var_equiv_relations_' = var_equiv_relations_
       /\ constraints' = constraints]_vars

C10_Witness ==
  /\ last.op \in {"SetLiteralToTrue", "IntersectDomainWith"}
  /\ Dom(Ctx, last.ref) = {1}
  /\ last.ref \in modified_domains
  /\ \E var \in Vars(Ctx) :
       /\ var # last.ref
       /\ Dom(Ctx, var) = {0, 1}
       /\ GetAffineRelation(Ctx, var).representative =
            GetAffineRelation(Ctx, last.ref).representative

\* C2: in every state reached by NewIntVar, GetOrCreateConstantVar,
\* IntersectDomainWith, SetLiteralToTrue/False, StoreAffineRelation,
\* StoreBooleanEqualityRelation, the encoding operations and
\* CanonicalizeObjective, every variable's domain is non-empty or is_unsat is
\* true.
C2_DomainNonEmptyOrUnsat ==
  \A var \in Vars(Ctx) : ~DomainIsEmpty(Ctx, var) \/ is_unsat

\* An intersection has emptied the domain of a variable and is_unsat is set.
C2_Witness ==
  /\ is_unsat
  /\ \E var \in Vars(Ctx) : DomainIsEmpty(Ctx, var) /\ var \in modified_domains

\* C3: over every operation the domain of an existing variable becomes a
\* subset of what it was, and the variable keeps its index when variables are
\* created: the variables at the indices 0 .. n - 1 stay there.
C3_DomainsOnlyShrink ==
  [][/\ NumVars(Ctx') >= NumVars(Ctx)
     /\ \A var \in Vars(Ctx) : IsIncludedIn(Dom(Ctx', var), Dom(Ctx, var))]_vars

\* CanonicalizeObjective has fixed variable 0 at the maximum of {1, 2}: {2}
\* is a domain that no other operation of these runs produces.  A second
\* variable exists at index 1.
C3_Witness ==
  /\ NumVars(Ctx) = 2
  /\ Dom(Ctx, 0) = {2}
  /\ 0 \in modified_domains

\* C4: once is_unsat is true, no operation sets it back to false.
C4_UnsatIsSticky == [][is_unsat => is_unsat']_vars

\* Variable 0 was created with an empty domain, which set is_unsat, and
\* operations have run since: another variable exists and an encoding was
\* stored.
C4_Witness ==
  /\ is_unsat
  /\ NumVars(Ctx) = 2
  /\ DomainIsEmpty(Ctx, 0)
  /\ 0 \notin modified_domains
  /\ encoding # << >>

\* C11: in every reachable state, for every entry (v, val) -> l of the
\* encoding map, CanBeUsedAsLiteral(l) holds and val is in the current domain
\* of v, later domain reductions of v included.
C11_EncodedValueInDomain ==
  \A key \in DOMAIN encoding :
    /\ \A ub \in UbChoices(Ctx) : CanBeUsedAsLiteral(Ctx, encoding[key], ub)
    /\ key[2] \in Dom(Ctx, key[1])

\* C11 (amended): every entry of the encoding map is kept as it is by every
\* operation, domain reductions included, and its literal can be used as a
\* literal whenever the domain of the literal is not empty; the encoded value
\* need not be in the current domain of the variable.
C11_EncodingIsAppendOnly ==
  [][/\ \A key \in DOMAIN encoding :
          key \in DOMAIN encoding' /\ encoding'[key] = encoding[key]
     /\ \A key \in DOMAIN encoding' :
          \/ DomainIsEmpty(Ctx', encoding'[key])
          \/ CanBeUsedAsLiteral(Ctx', encoding'[key], FALSE)]_vars

\* Value 2 of variable 0 is encoded and an intersection has since removed it
\* from the domain of the variable.
C11_Witness ==
  /\ <<0, 2>> \in DOMAIN encoding
  /\ 0 \in modified_domains
  /\ Dom(Ctx, 0) = {1}

\* The relations GetAffineRelation returns for ref_x and ref_y have the same
\* representative and compose to value(ref_x) = coeff * value(ref_y) + offset
\* for every value of the representative.
RelatesAs(c, ref_x, ref_y, coeff, offset) ==
  /\ GetAffineRelation(c, ref_x).representative
       = GetAffineRelation(c, ref_y).representative
  /\ GetAffineRelation(c, ref_x).coeff
       = coeff * GetAffineRelation(c, ref_y).coeff
  /\ GetAffineRelation(c, ref_x).offset
       = coeff * GetAffineRelation(c, ref_y).offset + offset

\* C12: for a variable x whose domain has exactly two values a < b and is not
\* {0, 1}, a first GetOrCreateVarValueEncoding(x, a) or (x, b) allocates one
\* Boolean variable and leaves the relation x = a + (b - a) * positive(l_b),
\* l_b the literal of b; the call for the other value that follows allocates
\* none and returns the negation of the first literal.
C12_TwoValueEncoding ==
  [][LET x == last'.ref
         a == DomMin(Dom(Ctx, x))
         b == DomMax(Dom(Ctx, x))
     IN (/\ last'.op = "GetOrCreateVarValueEncoding"
         /\ Size(Dom(Ctx, x)) = 2
         /\ Dom(Ctx, x) # {0, 1}
         /\ last'.coeff \in Dom(Ctx, x)) =>
          /\ (<<x, a>> \notin DOMAIN encoding /\ <<x, b>> \notin DOMAIN encoding) =>
               /\ NumVars(Ctx') = NumVars(Ctx) + 1
               /\ <<x, b>> \in DOMAIN encoding'
               /\ RelatesAs(Ctx', x, PositiveRef(encoding'[<<x, b>>]), b - a, a)
          /\ (/\ last.op = "GetOrCreateVarValueEncoding"
              /\ last.ref = x
              /\ last.coeff \in Dom(Ctx, x)
              /\ last.coeff # last'.coeff) =>
               /\ NumVars(Ctx') = NumVars(Ctx)
               /\ last'.reti = NegatedRef(last.reti)]_vars

\* The registered constraints other than `except` whose stored usage is not
\* the usage of the constraint as it is now.
StaleConstraints(c, except) ==
  {k \in 0 .. (Len(c.constraint_to_vars_) - 1) :
     /\ k # except
     /\ k < Len(c.constraints)
     /\ c.constraint_to_vars_[k + 1] # UsedVariables(c.constraints[k + 1])}

\* C13: ConstraintVariableUsageIsConsistent() returns true after any
\* UpdateNewConstraintsVariableUsage() and after any
\* UpdateConstraintVariableUsage(c), whatever appends and in-place rewrites of
\* constraints came before the call.
C13_ConsistentAfterUpdate ==
  last.op \in {"UpdateNewConstraintsVariableUsage",
               "UpdateConstraintVariableUsage"} =>
    ConstraintVariableUsageIsConsistent(Ctx)

\* C13 (amended): ConstraintVariableUsageIsConsistent() returns true after
\* UpdateNewConstraintsVariableUsage() when no registered constraint was
\* rewritten in place since its usage was last stored, and after
\* UpdateConstraintVariableUsage(c) when no registered constraint other than c
\* was.
C13_ConsistentAfterUpdateOfEveryRewrite ==
  [][/\ (/\ last'.op = "UpdateNewConstraintsVariableUsage"
         /\ StaleConstraints(Ctx, -1) = {}) =>
          ConstraintVariableUsageIsConsistent(Ctx')
     /\ (/\ last'.op = "UpdateConstraintVariableUsage"
         /\ StaleConstraints(Ctx, last'.ref) = {}) =>
          ConstraintVariableUsageIsConsistent(Ctx')]_vars

\* UpdateConstraintVariableUsage has stored the usage of a constraint that a
\* rule had cleared after it was registered, next to another constraint.
C13_Witness ==
  /\ last.op = "UpdateConstraintVariableUsage"
  /\ ~is_unsat
  /\ Len(constraints) = 2
  /\ constraints[last.ref + 1] = ClearedConstraint
  /\ \E var \in Vars(Ctx) : var_to_constraints_[var + 1] # {}
  /\ ConstraintVariableUsageIsConsistent(Ctx)

\* ------------------------------------------------------------------ C14
\* C14: whenever CanonicalizeObjective returns true, every key of
\* objective_map is its own affine representative, every coefficient of the
\* map is non-zero, the gcd of the absolute coefficients is 1 (of a map that
\* holds a coefficient), and objective_domain is non-empty.
C14_CanonicalObjective ==
  (last.op = "CanonicalizeObjective" /\ last.retb) =>
    /\ \A var \in DOMAIN objective.objective_map :
         /\ GetAffineRelation(Ctx, var).representative = var
         /\ objective.objective_map[var] # 0
    /\ objective.objective_map # << >> =>
         CoeffGcd(Ctx, DOMAIN objective.objective_map) = 1
    /\ objective.objective_domain # {}

\* ------------------------------------------------------------------ C15
\* The assignments of the variables of c that satisfy the domains and the
\* relations GetAffineRelation returns.
Assignments(c) ==
  {a \in [Vars(c) -> UNION {Dom(c, var) : var \in Vars(c)}] :
     \A var \in Vars(c) :
       /\ a[var] \in Dom(c, var)
       /\ a[var] = GetAffineRelation(c, var).coeff
                     * a[GetAffineRelation(c, var).representative]
                   + GetAffineRelation(c, var).offset}

\* The sum of coeff * x over the entries `todo` of the objective o under a.
RECURSIVE ObjectiveSum(_, _, _)
ObjectiveSum(o, a, todo) ==
  IF todo = {} THEN 0
  ELSE ObjectiveSum(o, a, todo \ {DomMax(todo)})
         + o.objective_map[DomMax(todo)] * a[DomMax(todo)]

\* scaling_factor * (sum + offset) times den, the denominator of the offset
\* being a divisor of den.
ScaledValue(o, a, den) ==
  o.objective_scaling_factor
    * (ObjectiveSum(o, a, DOMAIN o.objective_map) * den
       + o.objective_offset.num * (den \div o.objective_offset.den))

\* The objectives o1 and o2 have the same user-visible value under a.
SameObjectiveValue(o1, o2, a) ==
  ScaledValue(o1, a, o1.objective_offset.den * o2.objective_offset.den)
    = ScaledValue(o2, a, o1.objective_offset.den * o2.objective_offset.den)

\* Every entry of the objective of c stays in the map: its variable is not
\* fixed, is its own representative and is not fixed by the objective.
EntriesStay(c) ==
  \A var \in DOMAIN c.objective.objective_map :
    /\ ~IsFixed(c, var)
    /\ GetAffineRelation(c, var).representative = var
    /\ ~OnlyInObjective(c, var)

\* C15: a call of CanonicalizeObjective that returns true preserves
\* scaling_factor * (sum of coeff * x + offset) for every assignment that
\* satisfies the domains and the stored relations; and when every entry
\* stays, with g > 1 the gcd of the coefficients, every coefficient and the
\* objective domain are divided by g, the offset is divided by g and the
\* scaling factor is multiplied by g.
C15_ObjectiveValuePreserved ==
  [][(last'.op = "CanonicalizeObjective" /\ last'.retb) =>
       /\ \A a \in Assignments(Ctx') :
            SameObjectiveValue(objective, objective', a)
       /\ (EntriesStay(Ctx)
             /\ CoeffGcd(Ctx, DOMAIN objective.objective_map) > 1) =>
            LET g == CoeffGcd(Ctx, DOMAIN objective.objective_map)
            IN /\ DOMAIN objective'.objective_map = DOMAIN objective.objective_map
               /\ \A var \in DOMAIN objective.objective_map :
                    objective'.objective_map[var] * g
                      = objective.objective_map[var]
               /\ \A v \in objective'.objective_domain :
                    v * g \in objective.objective_domain
               /\ objective'.objective_offset
                    = Fraction(objective.objective_offset.num,
                               objective.objective_offset.den * g)
               /\ objective'.objective_scaling_factor
                    = objective.objective_scaling_factor * g]_vars

\* A call that returned true divided a non-empty objective by its gcd, the
\* offset no longer an integer, on variables one of which is related to the
\* other, and some assignment satisfies the domains and the relations.
C15_Witness ==
  /\ last.op = "CanonicalizeObjective" /\ last.retb
  /\ objective.objective_map # << >>
  /\ objective.objective_scaling_factor > 2
  /\ objective.objective_offset.den > 1
  /\ \E var \in Vars(Ctx) : GetAffineRelation(Ctx, var).representative # var
  /\ Assignments(Ctx) # {}

\* ------------------------------------------------------------------ C16
\* C16: CanonicalizeObjective is idempotent: a call that directly follows
\* another call of it leaves objective_map, objective_domain,
\* objective_offset, objective_scaling_factor,
\* objective_domain_is_constraining and the domains of the variables as the
\* first call left them.
C16_CanonicalizeIsIdempotent ==
  [][(last.op = "CanonicalizeObjective"
        /\ last'.op = "CanonicalizeObjective") =>
       (objective' = objective /\ domains' = domains)]_vars

\* ------------------------------------------------------------------ C17
\* The sum of the coefficients the objective obj of the working model gives
\* the variable var in its terms i .. Len, a term on a negated reference
\* counting with the opposite sign.
RECURSIVE ProtoCoeffOf(_, _, _)
ProtoCoeffOf(obj, var, i) ==
  IF i > Len(obj.vars) THEN 0
  ELSE ProtoCoeffOf(obj, var, i + 1)
         + (IF PositiveRef(obj.vars[i]) # var THEN 0
            ELSE IF RefIsPositive(obj.vars[i]) THEN obj.coeffs[i]
            ELSE -obj.coeffs[i])

\* C17: WriteObjectiveToProto directly after ReadObjectiveFromProto writes
\* the same logical objective: the coefficient written for a variable is the
\* sum of the coefficients the objective read gave it, negated references
\* folded into the sign; a variable whose sum is zero is absent; the offset
\* is unchanged; the variables written are positive indices in strictly
\* increasing order.
C17_ReadWriteRoundTrip ==
  [][(last.op = "ReadObjectiveFromProto"
        /\ last'.op = "WriteObjectiveToProto") =>
       /\ \A var \in Vars(Ctx) :
            ProtoCoeffOf(last'.obj, var, 1) = ProtoCoeffOf(last.obj, var, 1)
       /\ \A i \in DOMAIN last'.obj.vars :
            /\ RefIsPositive(last'.obj.vars[i])
            /\ last'.obj.coeffs[i] # 0
            /\ i > 1 => last'.obj.vars[i - 1] < last'.obj.vars[i]
       /\ last'.obj.offset = last.obj.offset]_vars

\* An objective written with no substitution since it was read, whose one
\* term is the sum of two terms on the negated reference of variable 1.
C17_Witness ==
  /\ last.op = "WriteObjectiveToProto"
  /\ ~objective.objective_domain_is_constraining
  /\ last.obj.vars = <<1>>
  /\ last.obj.coeffs = <<1>>

\* ------------------------------------------------------------------ C18
\* The value the equality ct gives its left-hand side under the assignment
\* a, from term i on.
RECURSIVE LinearSum(_, _, _)
LinearSum(ct, a, i) ==
  IF i > Len(ct.vars) THEN 0
  ELSE LinearSum(ct, a, i + 1)
         + (IF RefIsPositive(ct.vars[i]) THEN ct.coeffs[i] * a[ct.vars[i]]
            ELSE -ct.coeffs[i] * a[PositiveRef(ct.vars[i])])

\* The sum of the objective o plus its offset under a, times the denominator
\* of the offset.
ValueWithOffset(o, a) ==
  ObjectiveSum(o, a, DOMAIN o.objective_map) * o.objective_offset.den
    + o.objective_offset.num

\* Values the variables take in the assignments the substitution is checked
\* on.
AssignedValues == {-1, 0, 2}

\* C18: SubstituteVariableInObjective(var, coeff_in_eq, equality), with m =
\* objective_map[var] / coeff_in_eq and k the constant of the equality,
\* removes var from objective_map; decreases the entry of every other
\* variable by m times its coefficient in the equality (negated references
\* folded into the sign), with no entry left at zero; increases
\* objective_offset by k * m; shifts objective_domain by -k * m; sets
\* objective_domain_is_constraining; and so leaves the sum of the objective
\* plus its offset unchanged under every assignment that satisfies the
\* equality.
C18_SubstitutionInObjective ==
  [][last'.op = "SubstituteVariableInObjective" =>
       LET var == last'.ref
           m == CDiv(objective.objective_map[var], last'.coeff)
           k == DomMin(last'.ct.domain)
       IN /\ var \notin DOMAIN objective'.objective_map
          /\ \A v \in Vars(Ctx) \ {var} :
               MapCoeff(Ctx', v) = MapCoeff(Ctx, v) - ProtoCoeffOf(last'.ct, v, 1) * m
          /\ \A v \in DOMAIN objective'.objective_map :
               objective'.objective_map[v] # 0
          /\ objective'.objective_offset
               = Fraction(objective.objective_offset.num
                            + k * m * objective.objective_offset.den,
                          objective.objective_offset.den)
          /\ \A v \in AllValues :
               v \in objective'.objective_domain
                 <=> (v + k * m) \in objective.objective_domain
          /\ objective'.objective_domain_is_constraining
          /\ \A a \in [Vars(Ctx) -> AssignedValues] :
               LinearSum(last'.ct, a, 1) = k =>
                 ValueWithOffset(objective', a) = ValueWithOffset(objective, a)]_vars

\* Variable 0, of coefficient -6 in the objective, has been substituted by
\* the equality -3 x0 + 2 not(x1) - x1 = 1: the multiplier is 2, the two
\* terms on x1 fold into one entry and the offset has grown by 2.
C18_Witness ==
  /\ last.op = "SubstituteVariableInObjective"
  /\ last.ref = 0 /\ last.coeff = -3
  /\ last.ct.vars = <<0, NegatedRef(1), 1>>
  /\ last.ct.domain = {1}
  /\ DOMAIN objective.objective_map = {1}
  /\ objective.objective_offset.num = 2

\* ------------------------------------------------------------------ C19
\* C19: StoreBooleanEqualityRelation(a, a) changes no state;
\* StoreBooleanEqualityRelation(a, not(a)) sets is_unsat, appends no
\* constraint and stores no relation; a call on other references that
\* stores a relation appends exactly one linear constraint on the two
\* variables, var_a - var_b = 0 when a and b have the same polarity and
\* var_a + var_b = 1 otherwise.
C19_BooleanEqualityCases ==
  [][last'.op = "StoreBooleanEqualityRelation" =>
       /\ last'.ref = last'.ref2 => Ctx' = Ctx
       /\ last'.ref = NegatedRef(last'.ref2) =>
            /\ is_unsat'
            /\ constraints' = constraints
            /\ affine_relations_' = affine_relations_
            /\ var_equiv_relations_' = var_equiv_relations_
       /\ (/\ last'.ref # last'.ref2
           /\ last'.ref # NegatedRef(last'.ref2)
           /\ \/ affine_relations_' # affine_relations_
              \/ var_equiv_relations_' # var_equiv_relations_) =>
            /\ Len(constraints') = Len(constraints) + 1
            /\ SubSeq(constraints', 1, Len(constraints)) = constraints
            /\ constraints'[Len(constraints')] =
                 [kind |-> "linear", enforcement_literal |-> << >>,
                  vars |-> <<PositiveRef(last'.ref), PositiveRef(last'.ref2)>>,
                  coeffs |-> IF RefIsPositive(last'.ref) = RefIsPositive(last'.ref2)
                             THEN <<1, -1>> ELSE <<1, 1>>,
                  domain |-> IF RefIsPositive(last'.ref) = RefIsPositive(last'.ref2)
                             THEN {0} ELSE {1}]]_vars

\* A call on a literal and the negation of another one has stored the
\* relation and appended the constraint.
C19_Witness ==
  /\ last.op = "StoreBooleanEqualityRelation"
  /\ PositiveRef(last.ref) # PositiveRef(last.ref2)
  /\ RefIsPositive(last.ref) # RefIsPositive(last.ref2)
  /\ affine_relations_ # EmptyRepo
  /\ Len(constraints) = 1

\* ------------------------------------------------------------------ C20
\* The relations GetAffineRelation returns for ref_x and ref_y have one
\* representative, and its value r gives the two references values with
\* value(ref_x) = coeff * value(ref_y) + offset.
ComposesTo(c, ref_x, ref_y, coeff, offset, r) ==
  /\ GetAffineRelation(c, ref_x).representative
       = GetAffineRelation(c, ref_y).representative
  /\ GetAffineRelation(c, ref_x).coeff * r + GetAffineRelation(c, ref_x).offset
       = coeff * (GetAffineRelation(c, ref_y).coeff * r
                    + GetAffineRelation(c, ref_y).offset) + offset

\* Values of the representative the stored fact is checked on.
CheckedValues == {-1, 0, 1}

\* C20: after StoreAffineRelation(ct, ref_x, ref_y, coeff, offset) on two
\* references that are not fixed and were not related, whatever the int64
\* coeff and offset and the polarities, the relations GetAffineRelation
\* returns for ref_x and ref_y compose to the stored fact: both references
\* have the same representative, and every value of it gives them a pair of
\* values with value(ref_x) = coeff * value(ref_y) + offset.
C20_StoredFactIsReturned ==
  [][(/\ last'.op = "StoreAffineRelation"
      /\ ~IsFixed(Ctx, last'.ref) /\ ~IsFixed(Ctx, last'.ref2)
      /\ GetAffineRelation(Ctx, last'.ref).representative
           # GetAffineRelation(Ctx, last'.ref2).representative) =>
       \A r \in CheckedValues :
         ComposesTo(Ctx', last'.ref, last'.ref2, last'.coeff, last'.offset, r)]_vars

\* ------------------------------------------------------------------ C21
\* C21: in every reachable state, for every reference a literal can be and
\* whose affine representative can be used as a literal too, exactly one of
\* positive_possible and negative_possible holds for the relation
\* GetAffineRelation returns for the positive reference, so the DCHECK_NE of
\* GetLiteralRepresentative holds, also for a relation stored before the
\* domains were narrowed to [0, 1].
C21_OnePolarityIsPossible ==
  \A l \in Refs(Ctx) :
    (/\ CanBeUsedAsLiteral(Ctx, l, FALSE)
     /\ CanBeUsedAsLiteral(Ctx, GetAffineRelation(Ctx, PositiveRef(l)).representative, FALSE)) =>
      PositivePossible(GetAffineRelation(Ctx, PositiveRef(l)))
        # NegativePossible(GetAffineRelation(Ctx, PositiveRef(l)))

\* ------------------------------------------------------------------ C22
\* The call merged the classes of x and y in the repository.
Merged(before, after, x, y) ==
  /\ RepoGet(before, x).representative # RepoGet(before, y).representative
  /\ RepoGet(after, x).representative = RepoGet(after, y).representative

\* AddRelation kept a representative that can be used as a literal, if the
\* representative of x or of y could be before the merge.
LiteralStaysRepresentative(c, before, after, x, y) ==
  (/\ Merged(before, after, x, y)
   /\ \/ CanBeUsedAsLiteral(c, RepoGet(before, x).representative, FALSE)
      \/ CanBeUsedAsLiteral(c, RepoGet(before, y).representative, FALSE)) =>
    CanBeUsedAsLiteral(c, RepoGet(after, x).representative, FALSE)

\* C22: after AddRelation merges two classes with a coefficient of 1 or -1,
\* if the representative of x or the representative of y could be used as a
\* literal before the merge, the representative of the merged class can be
\* used as a literal. StoreAffineRelation calls AddRelation on
\* affine_relations_ and on var_equiv_relations_.
C22_MergeKeepsLiteralRepresentative ==
  [][(last'.op = "StoreAffineRelation" /\ Abs(ToInt(last'.coeff)) = 1) =>
       /\ LiteralStaysRepresentative(Ctx, affine_relations_, affine_relations_',
                                     PositiveRef(last'.ref), PositiveRef(last'.ref2))
       /\ LiteralStaysRepresentative(Ctx, var_equiv_relations_, var_equiv_relations_',
                                     PositiveRef(last'.ref), PositiveRef(last'.ref2))]_vars

\* A call with coefficient 1 or -1 was made on a variable that cannot be used
\* as a literal and one that can, and the class they are in has a
\* representative that is not the first one.
C22_Witness ==
  /\ last.op = "StoreAffineRelation" /\ Abs(ToInt(last.coeff)) = 1
  /\ ~CanBeUsedAsLiteral(Ctx, last.ref, FALSE)
  /\ CanBeUsedAsLiteral(Ctx, last.ref2, FALSE)
  /\ RepoGet(affine_relations_, PositiveRef(last.ref)).representative = PositiveRef(last.ref2)
  /\ RepoGet(var_equiv_relations_, PositiveRef(last.ref)).representative = PositiveRef(last.ref2)

\* ------------------------------------------------------------------ C23
\* C23: GetOrCreateVarValueEncoding respects the sign of the reference: from
\* the same state, GetOrCreateVarValueEncoding(NegatedRef(x), -v) returns the
\* literal GetOrCreateVarValueEncoding(x, v) returns, for every variable x
\* and value v, a Boolean variable and v = 1 included.
C23_EncodingOfNegatedReference ==
  \A x \in Vars(Ctx), v \in EncValues :
    GetOrCreateVarValueEncoding(Ctx, NegatedRef(x), -v, FALSE).ret
      = GetOrCreateVarValueEncoding(Ctx, x, v, FALSE).ret

\* ------------------------------------------------------------------ C24
\* What C24 compares of the context a call leaves.
EncodingState(c) ==
  <<c.encoding, c.constraints, c.affine_relations_, c.var_equiv_relations_,
    c.is_unsat>>

\* C24: InsertVarValueEncoding respects the sign of the reference: from the
\* same state, InsertVarValueEncoding(l, NegatedRef(x), -v) leaves the
\* encoding map, the constraints, the affine relations and is_unsat that
\* InsertVarValueEncoding(l, x, v) leaves, for every literal l, variable x
\* and value v of x; for a domain of two values and a fresh literal neither
\* sets is_unsat.
C24_InsertOnNegatedReference ==
  \A x \in Vars(Ctx), l \in Refs(Ctx) :
    (CanBeUsedAsLiteral(Ctx, l, FALSE) /\ PositiveRef(l) # x) =>
      \A v \in Dom(Ctx, x) :
        EncodingState(InsertVarValueEncoding(Ctx, l, NegatedRef(x), -v, FALSE))
          = EncodingState(InsertVarValueEncoding(Ctx, l, x, v, FALSE))

\* ------------------------------------------------------------------ C25
\* The call added a relation to one of the two repositories.
RelationMerged ==
  \/ affine_relations_' # affine_relations_
  \/ var_equiv_relations_' # var_equiv_relations_

\* The variables of the call that are not their own representative on return.
Represented(c, x, y) ==
  {var \in {x, y} : GetAffineRelation(c, var).representative # var}

\* C25: when StoreAffineRelation(ct, ref_x, ref_y, coeff, offset) merges a new
\* relation, positive(ref_x) and positive(ref_y) both have their
\* modified_domains bit set on return and ct is recorded in
\* affine_constraints; when nothing is merged, modified_domains and
\* affine_constraints are unchanged.
C25_BothMarkedModified ==
  [][last'.op = "StoreAffineRelation" =>
       IF RelationMerged
       THEN /\ {PositiveRef(last'.ref), PositiveRef(last'.ref2)} \subseteq modified_domains'
            /\ ExternalCt \in affine_constraints'
       ELSE /\ modified_domains' = modified_domains
            /\ affine_constraints' = affine_constraints]_vars

\* C25, amended: when StoreAffineRelation merges a new relation, each of
\* positive(ref_x) and positive(ref_y) that is not its own representative on
\* return has its modified_domains bit set, no other bit changes, and ct is
\* recorded in affine_constraints; when nothing is merged, modified_domains
\* and affine_constraints are unchanged.
C25_RepresentedMarkedModified ==
  [][last'.op = "StoreAffineRelation" =>
       IF RelationMerged
       THEN /\ modified_domains' =
                 modified_domains
                 \cup Represented(Ctx', PositiveRef(last'.ref), PositiveRef(last'.ref2))
            /\ affine_constraints' = affine_constraints \cup {ExternalCt}
       ELSE /\ modified_domains' = modified_domains
            /\ affine_constraints' = affine_constraints]_vars

\* A call merged two variables: the one that got a representative is marked,
\* the representative is not.
C25_Witness ==
  /\ last.op = "StoreAffineRelation"
  /\ ExternalCt \in affine_constraints
  /\ PositiveRef(last.ref) \in modified_domains
  /\ PositiveRef(last.ref2) \notin modified_domains
  /\ GetAffineRelation(Ctx, last.ref).representative = PositiveRef(last.ref2)

\* ------------------------------------------------------------------ C26
\* C26: once is_unsat is true, the mutations of the context can still be
\* called on any variable without failing an assertion or reading a
\* per-variable table out of range, the variable whose empty domain caused
\* the infeasibility and a variable NewIntVar created with an empty domain
\* included. Stated for IntersectDomainWith, which SetLiteralToTrue and
\* SetLiteralToFalse call with the domains {1} and {0}.
C26_MutationsAreSafeOnceUnsat ==
  is_unsat =>
    \A ref \in Refs(Ctx) :
      /\ IntersectDomainWithChecks(Ctx, ref)
      /\ \A D \in IntersectDomains \cup {{0}} : IntersectMarksInRange(Ctx, ref, D)

\* ------------------------------------------------------------------ C27
\* The registered constraints that are now linear constraints on the one
\* variable var.
Linear1On(c, var) ==
  {k \in 0 .. (Len(c.constraint_to_vars_) - 1) :
     /\ k < Len(c.constraints)
     /\ IsLinear1(c.constraints[k + 1])
     /\ PositiveRef(c.constraints[k + 1].vars[1]) = var}

\* C27: after any sequence of UpdateNewConstraintsVariableUsage and
\* UpdateConstraintVariableUsage calls interleaved with rewrites of the
\* constraints (a one-variable linear constraint rewritten into another kind
\* and updated more than once included), var_to_num_linear1_[v] is the
\* number of registered constraints that are now one-variable linear
\* constraints on v, so VariableIsOnlyUsedInEncoding(v) is true exactly when
\* the graph is up to date and every entry of var_to_constraints_[v] is such
\* a constraint. Stated after an update that leaves no constraint whose
\* rewrite has not been followed by an update.
C27_Linear1CountIsExact ==
  (/\ last.op \in {"UpdateNewConstraintsVariableUsage",
                   "UpdateConstraintVariableUsage"}
   /\ ConstraintVariableGraphIsUpToDate(Ctx)
   /\ StaleConstraints(Ctx, -1) = {}) =>
    \A v \in Vars(Ctx) :
      /\ var_to_num_linear1_[v + 1] = Cardinality(Linear1On(Ctx, v))
      /\ VariableIsOnlyUsedInEncoding(Ctx, v)
           <=> (var_to_constraints_[v + 1] \subseteq Linear1On(Ctx, v))

\* ------------------------------------------------------------------ C28
\* C28: the merge of UpdateConstraintVariableUsage(c) does what erasing c
\* from var_to_constraints_ of every old variable and inserting it for every
\* new one does: after any sequence of usage updates, for every constraint
\* index c >= 0 and variable v, c is in var_to_constraints_[v] if and only
\* if v is in constraint_to_vars_[c], and interval_usage_[i] is the number of
\* constraints whose constraint_to_intervals_ holds i.
C28_UsageTablesAgree ==
  /\ \A v \in 0 .. (Len(var_to_constraints_) - 1) :
       {k \in var_to_constraints_[v + 1] : k >= 0}
         = {k \in 0 .. (Len(constraint_to_vars_) - 1) :
              v \in constraint_to_vars_[k + 1]}
  /\ \A k \in 0 .. (Len(constraint_to_vars_) - 1) :
       \A v \in constraint_to_vars_[k + 1] : v < Len(var_to_constraints_)
  /\ \A i \in 0 .. (Len(interval_usage_) - 1) :
       interval_usage_[i + 1]
         = Cardinality({k \in 0 .. (Len(constraint_to_intervals_) - 1) :
                          i \in constraint_to_intervals_[k + 1]})

\* UpdateConstraintVariableUsage has moved a constraint from one variable
\* and one interval to others: the constraint is an implication between the
\* variables 1 and 1 now, variable 0 has lost every constraint, and interval 1
\* is used by the other constraint.
C28_Witness ==
  /\ last.op = "UpdateConstraintVariableUsage" /\ last.ref = 0
  /\ Len(constraint_to_vars_) = 2
  /\ constraint_to_vars_[1] = {1}
  /\ var_to_constraints_ = <<{}, {0}>>
  /\ interval_usage_ = <<0, 1>>

\* C29: after ReadObjectiveFromProto and any CanonicalizeObjective and
\* SubstituteVariableInObjective calls that follow it, var_to_constraints_[v]
\* holds the objective sentinel -1 exactly when v is a key of objective_map,
\* and no coefficient of objective_map is zero.
C29_SentinelMatchesObjective ==
  /\ \A var \in Vars(Ctx) :
       var \in DOMAIN objective.objective_map
         <=> /\ var < Len(var_to_constraints_)
             /\ -1 \in var_to_constraints_[var + 1]
  /\ \A var \in DOMAIN objective.objective_map :
       objective.objective_map[var] # 0

\* SubstituteVariableInObjective has replaced a key of objective_map: the
\* variable has lost its entry and its sentinel, the other variable of the
\* equality holds an entry and the sentinel.
C29_Witness ==
  /\ last.op = "SubstituteVariableInObjective"
  /\ last.ref \notin DOMAIN objective.objective_map
  /\ -1 \notin var_to_constraints_[last.ref + 1]
  /\ \E var \in DOMAIN objective.objective_map :
       /\ var = PositiveRef(last.ct.vars[2])
       /\ -1 \in var_to_constraints_[var + 1]

\* CanonicalizeObjective has moved an entry to the representative of its
\* variable: the representative holds the sentinel, the variable does not.
C29_WitnessCanonicalize ==
  /\ last.op = "CanonicalizeObjective"
  /\ \E var \in Vars(Ctx) :
       /\ GetAffineRelation(Ctx, var).representative # var
       /\ GetAffineRelation(Ctx, var).representative
            \in DOMAIN objective.objective_map
       /\ -1 \notin var_to_constraints_[var + 1]

\* The half map of `literal implies var == value` (imply_eq) or of `literal
\* implies var != value` holds literal under key.
Recorded(c, literal, key, imply_eq) ==
  literal \in HalfEntry(IF imply_eq THEN c.eq_half_encoding
                        ELSE c.neq_half_encoding, key)

\* The context without its two half maps.
WithoutHalves(c) ==
  [c EXCEPT !.eq_half_encoding = << >>, !.neq_half_encoding = << >>]

\* The encoding map after the two halves of `l encodes var == value` have
\* arrived, the half of the flag imply_eq first.
AfterBothHalves(c, l, var, value, imply_eq) ==
  InsertHalfVarValueEncoding(
    InsertHalfVarValueEncoding(
      c, IF imply_eq THEN l ELSE NegatedRef(l), var, value, imply_eq,
      FALSE).ctx,
    IF imply_eq THEN NegatedRef(l) ELSE l, var, value, ~imply_eq,
    FALSE).ctx.encoding

\* What a call InsertHalfVarValueEncoding(l, var, value, imply_eq) that
\* returned ret does to the encoding map, key being <<var, value>> and
\* eq_literal the literal that encodes var == value if l is a half of one.
HalfInsertionIsRight(l, key, imply_eq, ret, eq_literal) ==
  /\ ret <=> ~Recorded(Ctx, l, key, imply_eq)
  /\ \A k \in DOMAIN encoding :
       k \in DOMAIN encoding' /\ encoding'[k] = encoding[k]
  /\ \A k \in (DOMAIN encoding') \ (DOMAIN encoding) :
       /\ k = key
       /\ encoding'[k] = eq_literal
       /\ Recorded(Ctx', eq_literal, key, TRUE)
       /\ Recorded(Ctx', NegatedRef(eq_literal), key, FALSE)
  /\ AfterBothHalves(Ctx, eq_literal, key[1], key[2], TRUE)
       = AfterBothHalves(Ctx, eq_literal, key[1], key[2], FALSE)
  /\ key \in DOMAIN AfterBothHalves(Ctx, eq_literal, key[1], key[2], TRUE)
  /\ ( /\ ret
       /\ Recorded(Ctx, NegatedRef(l), key, ~imply_eq)
       /\ key \in DOMAIN encoding
       /\ encoding[key] # eq_literal )
     => WithoutHalves(Ctx')
          = WithoutHalves(StoreBooleanEqualityRelation(Ctx, eq_literal,
                                                       encoding[key], FALSE))

\* C30: InsertHalfVarValueEncoding(l, v, val, imply_eq) returns true exactly
\* when l was not yet in the half map of imply_eq under (v, val); it adds an
\* entry to the encoding map only for (v, val), only when l' implies v == val
\* and negated(l') implies v != val are both recorded under (v, val), l' being
\* the entry; the entry is the same whichever half arrives first; and an
\* entry that exists is kept, a different literal being merged with it by
\* StoreBooleanEqualityRelation.
C30_HalfEncodingPromotion ==
  [][last'.op = "InsertHalfVarValueEncoding"
       => HalfInsertionIsRight(
            last'.ref2, <<last'.ref, last'.coeff>>, last'.imply_eq,
            last'.retb,
            IF last'.imply_eq THEN last'.ref2 ELSE NegatedRef(last'.ref2))]_vars

\* `literal implies var != value` has arrived after the other half for a
\* value that another variable's literal encodes already: the entry is kept
\* and the constraint of the Boolean equality is in the working model.
C30_Witness ==
  /\ last.op = "InsertHalfVarValueEncoding" /\ ~last.imply_eq /\ last.retb
  /\ <<last.ref, last.coeff>> \in DOMAIN encoding
  /\ PositiveRef(encoding[<<last.ref, last.coeff>>]) # PositiveRef(last.ref2)
  /\ Recorded(Ctx, NegatedRef(last.ref2), <<last.ref, last.coeff>>, TRUE)
  /\ constraints # << >>

\* No other entry of objective_map is moved to var by the first loop of
\* CanonicalizeObjective: the coefficient the loop reads for var is the one
\* objective_map holds on entry.
CoefficientIsKept(c, var) ==
  \A other \in (DOMAIN c.objective.objective_map) \ {var} :
    GetAffineRelation(c, other).representative # var

\* The domain CanonicalizeObjective has given var is the minimum of its
\* domain for a positive coefficient and the maximum otherwise, and what
\* held on entry allowed the variable to be fixed.
FixedByObjective(var) ==
  /\ ~keep_all_feasible_solutions
  /\ ConstraintVariableGraphIsUpToDate(Ctx)
  /\ ~objective.objective_domain_is_constraining
  /\ var_to_constraints_[var + 1] = {-1}
  /\ var \in DOMAIN objective.objective_map
  /\ domains'[var + 1] \in {{MinOf(Ctx, var)}, {MaxOf(Ctx, var)}}
  /\ CoefficientIsKept(Ctx, var)
       => domains'[var + 1] = IF objective.objective_map[var] > 0
                              THEN {MinOf(Ctx, var)} ELSE {MaxOf(Ctx, var)}

\* VariableIsUniqueAndRemovable and VariableWithCostIsUniqueAndRemovable
\* return false for every reference.
NothingIsRemovable(c) ==
  \A ref \in Refs(c) :
    TablesCover(c, {PositiveRef(ref)})
      => /\ ~VariableIsUniqueAndRemovable(c, ref)
         /\ ~VariableWithCostIsUniqueAndRemovable(c, ref)

\* C31: while keep_all_feasible_solutions is true no reference is unique and
\* removable, with or without cost, and CanonicalizeObjective changes no
\* domain; a domain that CanonicalizeObjective changes is that of a variable
\* it fixes, to its minimum when its objective coefficient is positive and to
\* its maximum otherwise, the flag being false, the constraint graph up to
\* date, the objective domain not constraining and -1 the only entry of
\* var_to_constraints_ for the variable.
C31_FixedOnlyWhenAllowed ==
  /\ [](keep_all_feasible_solutions => NothingIsRemovable(Ctx))
  /\ [][last'.op = "CanonicalizeObjective"
          => \A var \in Vars(Ctx) :
               domains'[var + 1] # domains[var + 1] => FixedByObjective(var)]_vars

\* CanonicalizeObjective has fixed a variable of domain {1, 2} and of
\* negative coefficient to its maximum: no other operation narrows a domain.
C31_Witness ==
  /\ last.op = "CanonicalizeObjective"
  /\ ~keep_all_feasible_solutions
  /\ \E var \in Vars(Ctx) : domains[var + 1] = {2}

\* The stored relations make the literals a and b, of two variables, the
\* negation of each other.
StoredAsOpposite(c, a, b) ==
  /\ PositiveRef(a) # PositiveRef(b)
  /\ GetLiteralRepresentative(c, a, FALSE)
       = NegatedRef(GetLiteralRepresentative(c, b, FALSE))

\* C32: StoreBooleanEqualityRelation(a, b) on two literals that the stored
\* relations make the negation of each other sets is_unsat or records the
\* contradiction in some other way: it does not return with the state
\* unchanged.
C32_ContradictionIsRecorded ==
  [][( /\ last'.op = "StoreBooleanEqualityRelation"
       /\ StoredAsOpposite(Ctx, last'.ref, last'.ref2) )
       => (is_unsat' \/ Ctx' # Ctx)]_vars
====
